---- MODULE Spec2Model ----
(***************************************************************************)
(* A model of the wake frontend: the indentation processor of ingest       *)
(* (src/syntax.cpp), the tuple accessor synthesis of parse_tuple and the   *)
(* symbol tables of dst_top (src/src/frontend/todst.cpp).                  *)
(***************************************************************************)
EXTENDS Integers, Sequences, FiniteSets, Bags, TLC

(***************************************************************************)
(* Bounds of the model.                                                    *)
(***************************************************************************)
\* dst_top runs into one Top
MaxFiles == 1
\* top-level nodes of all the files together
MaxItems == 2
\* the same two, for the runs that share packages
MaxTopFiles == 2
MaxTopItems == 4

\* top-level declarations of the file of data and tuple declarations
MaxDecls == 3
\* tokens the lexer returns in one ingest run, the final EOF included
MaxTokens == 7

\* tokens lexed in the runs over streams that hold the byte }
MaxLexed == 6
\* tokens lexed in a run whose newline table is followed
MaxLines == 5
\* bytes of one TOKEN_WS
MaxIndent == 2
\* fields of a tuple declared for the accessor laws
MaxFields == 3
\* the values a tuple slot holds are 0..MaxVal
MaxVal == 1
\* requests the LSP server reads
MaxRequests == 4
\* the descriptors given to Poll are 1..MaxFd
MaxFd == 3
\* entries of the Poll set
MaxPfds == 4

VARIABLES
  \* ---- ingest (src/syntax.cpp) ----
  state,         \* STATE_IDLE / STATE_NL / STATE_NL_WS
  indent,        \* std::string indent
  indent_stack,  \* std::vector<int> indent_stack
  ws,            \* the bytes between nl.end and ws.end
  token,         \* id and ok of the token the lexer returned last
  parsed,        \* the token ids passed to Parse, in order
  reports,       \* number of REPORT_ERROR diagnostics of illegal tokens
  lexed,         \* number of tokens the lexer has returned so far
  illegal,       \* number of those the lexer flagged ok = false
  ipc,           \* "lex" inside the do-while loop, "done" after it
  popEmpty,      \* indent_stack.back() was evaluated on an empty vector
  lexer,         \* the lexer the loop called last: lex_wake, lex_dstr, lex_rstr
  peek,          \* what that call saw: *token.end == '}', the parser's shifts
  fcontent,      \* pi.fcontent: token.end as an offset and the newline table
  peekAt,        \* how many tokens the parser had been passed when peeked at a }
  \* ---- the definitions parse_tuple generates, at work ----
  tpc,           \* "none" before the tuple is declared, "live" after
  tsum,          \* the Sum of the declared tuple
  tdefs,         \* the Definitions parse_tuple bound for it, in order
  tvalue,        \* a value of the tuple type
  tresult,       \* what the last get returned
  \* ---- dst_top (src/src/frontend/todst.cpp) ----
  top,           \* Top &top: packages and globals
  package,       \* the Package dst_top builds: name, exports, package
  file,          \* package->files.back(): content, local, topics
  globals,       \* Symbols globals
  errors,        \* the bag of diagnostics ERROR has reported
  binds,         \* the bind_def, bind_type and topic bindings of this file, in order
  topdef,        \* the top-level node the loop dispatched last
  dpc,           \* "idle" between runs, "items" in the loop, "aborted" by assert
  nfiles,        \* dst_top runs started so far
  nitems,        \* top-level nodes dispatched so far
  \* ---- the LSP server (src/lsp/lsp.cpp) ----
  isInitialized, \* bool isInitialized
  isShutDown,    \* bool isShutDown
  rootUri,       \* std::string rootUri
  changedFiles,  \* std::map changedFiles, as its (uri, text) pairs
  lpc,           \* "serving", or how the process ended: "exit0", "exit1", "terminated"
  nreq,          \* messages read so far
  request,       \* the method of the message read last
  called,        \* the handler callMethod called for it, "none" if none
  code,          \* what was sent back: an error code, "result", a notification
  \* ---- Poll (src/src/runtime/poll.cpp) ----
  pfds,          \* the fd of each entry of imp->pfds, in order
  ppc,           \* "ok", or "aborted" by the library's bounds assertion
  pop            \* the call made last and its argument

ingestVars ==
  <<state, indent, indent_stack, ws, token, parsed, reports, lexed, illegal, ipc, popEmpty,
    lexer, peek, fcontent, peekAt>>

tupleVars == <<tpc, tsum, tdefs, tvalue, tresult>>

dstVars ==
  <<top, package, file, globals, errors, binds, topdef, dpc, nfiles, nitems>>

lspVars ==
  <<isInitialized, isShutDown, rootUri, changedFiles, lpc, nreq, request, called, code>>

pollVars == <<pfds, ppc, pop>>

vars == <<ingestVars, tupleVars, dstVars, lspVars, pollVars>>

(***************************************************************************)
(* The LSP server: processRequests, callMethod and the handlers.           *)
(***************************************************************************)
ParseError == "-32700"
InvalidRequest == "-32600"
MethodNotFound == "-32601"
ServerNotInitialized == "-32002"

\* the keys of methodToFunction, with the member function each one calls
methodToFunction ==
  ("initialize" :> "initialize")
    @@ ("initialized" :> "initialized")
    @@ ("textDocument/didOpen" :> "didOpen")
    @@ ("textDocument/didChange" :> "didChange")
    @@ ("textDocument/didSave" :> "didSave")
    @@ ("textDocument/didClose" :> "didClose")
    @@ ("workspace/didChangeWatchedFiles" :> "didChangeWatchedFiles")
    @@ ("shutdown" :> "shutdown")
    @@ ("exit" :> "serverExit")

\* a method the server has no handler for
UnknownMethods == {"textDocument/hover"}

\* the rootUri of initialize, the uris of the documents (two below the root,
\* one shorter than the root and its slash), the texts of a change
Roots == {<<"r", "t">>}

Uris == {<<"r", "t", "/", "a">>, <<"r", "t", "/", "b">>, <<"x">>}

Texts == {"t1", "t2"}

\* LSP::LSP and the member initializers
NewLSP ==
  /\ isInitialized = FALSE
  /\ isShutDown = FALSE
  /\ rootUri = <<>>
  /\ changedFiles = {}
  /\ lpc = "serving"
  /\ nreq = 0
  /\ request = "none"
  /\ called = "none"
  /\ code = "none"

\* a gate that lets exit through in every state
GateExitAlways(method) ==
  IF method = "exit" THEN "call"
  ELSE IF ~isInitialized /\ method # "initialize" THEN ServerNotInitialized
  ELSE IF isShutDown THEN InvalidRequest
  ELSE "call"

\* processRequests: the error a parsed request is answered with before any
\* handler is looked up, or "call" when it goes to callMethod
Gate(method) ==
  IF ~isInitialized /\ method # "initialize" THEN ServerNotInitialized
  ELSE IF isShutDown /\ method # "exit" THEN InvalidRequest
  ELSE "call"

\* one message is read from std::cin and parsed: its method
Received(method) ==
  /\ lpc = "serving"
  /\ nreq < MaxRequests
  /\ nreq' = nreq + 1
  /\ request' = method
  /\ UNCHANGED <<ingestVars, tupleVars, dstVars, pollVars>>

\* callMethod finds the handler of a method the gate let through
Calls(method) ==
  /\ Received(method)
  /\ Gate(method) = "call"
  /\ called' = methodToFunction[method]

\* std::map::erase by key
Erase(map, uri) == {e \in map : e.uri # uri}

\* changedFiles[fileUri] = fileContent
Assign(map, uri, text) == Erase(map, uri) \cup {[uri |-> uri, text |-> text]}

\* diagnoseFile: fileUri.substr(rootUri.length() + 1) throws std::out_of_range,
\* which nothing catches, when the uri is shorter than that; otherwise the
\* file is parsed and its diagnostics are published
Diagnosed(uri) == Len(rootUri) + 1 <= Len(uri)

diagnoseFile(uri) ==
  /\ lpc' = IF Diagnosed(uri) THEN "serving" ELSE "terminated"
  /\ code' = IF Diagnosed(uri) THEN "textDocument/publishDiagnostics" ELSE "none"

\* the content does not parse as JSON: sendErrorMessage(ParseError, ...)
Malformed ==
  /\ Received("none")
  /\ called' = "none"
  /\ code' = ParseError
  /\ UNCHANGED <<isInitialized, isShutDown, rootUri, changedFiles, lpc>>

\* !isInitialized && method != "initialize"
NotInitialized ==
  \E method \in DOMAIN methodToFunction \cup UnknownMethods :
    /\ Received(method)
    /\ Gate(method) = ServerNotInitialized
    /\ called' = "none"
    /\ code' = ServerNotInitialized
    /\ UNCHANGED <<isInitialized, isShutDown, rootUri, changedFiles, lpc>>

\* isShutDown && method != "exit"
AfterShutdown ==
  \E method \in DOMAIN methodToFunction \cup UnknownMethods :
    /\ Received(method)
    /\ Gate(method) = InvalidRequest
    /\ called' = "none"
    /\ code' = InvalidRequest
    /\ UNCHANGED <<isInitialized, isShutDown, rootUri, changedFiles, lpc>>

\* callMethod on a method that is no key of methodToFunction
NotImplemented ==
  \E method \in UnknownMethods :
    /\ Received(method)
    /\ Gate(method) = "call"
    /\ called' = "none"
    /\ code' = MethodNotFound
    /\ UNCHANGED <<isInitialized, isShutDown, rootUri, changedFiles, lpc>>

initialize ==
  \E root \in Roots :
    /\ Calls("initialize")
    /\ isInitialized' = TRUE
    /\ rootUri' = root
    /\ code' = "result"
    /\ UNCHANGED <<isShutDown, changedFiles, lpc>>

initialized ==
  /\ Calls("initialized")
  /\ code' = "none"
  /\ UNCHANGED <<isInitialized, isShutDown, rootUri, changedFiles, lpc>>

didOpen ==
  \E uri \in Uris :
    /\ Calls("textDocument/didOpen")
    /\ diagnoseFile(uri)
    /\ UNCHANGED <<isInitialized, isShutDown, rootUri, changedFiles>>

didChange ==
  \E uri \in Uris, text \in Texts :
    /\ Calls("textDocument/didChange")
    /\ changedFiles' = Assign(changedFiles, uri, text)
    /\ diagnoseFile(uri)
    /\ UNCHANGED <<isInitialized, isShutDown, rootUri>>

didSave ==
  \E uri \in Uris :
    /\ Calls("textDocument/didSave")
    /\ changedFiles' = Erase(changedFiles, uri)
    /\ diagnoseFile(uri)
    /\ UNCHANGED <<isInitialized, isShutDown, rootUri>>

didClose ==
  \E uri \in Uris :
    /\ Calls("textDocument/didClose")
    /\ changedFiles' = Erase(changedFiles, uri)
    /\ code' = "none"
    /\ UNCHANGED <<isInitialized, isShutDown, rootUri, lpc>>

\* the loop over params.changes, as far as it gets: each file is erased and
\* diagnosed, and the first uri that cannot be diagnosed ends the process
RECURSIVE WatchedLoop(_, _)
WatchedLoop(files, map) ==
  IF files = <<>> THEN [map |-> map, ok |-> TRUE]
  ELSE IF Diagnosed(Head(files))
  THEN WatchedLoop(Tail(files), Erase(map, Head(files)))
  ELSE [map |-> Erase(map, Head(files)), ok |-> FALSE]

didChangeWatchedFiles ==
  \E files \in {<<>>} \cup {<<u>> : u \in Uris} \cup {<<u, v>> : u \in Uris, v \in Uris} :
    LET r == WatchedLoop(files, changedFiles)
    IN /\ Calls("workspace/didChangeWatchedFiles")
       /\ changedFiles' = r.map
       /\ lpc' = IF r.ok THEN "serving" ELSE "terminated"
       /\ code' = IF r.ok /\ files # <<>> THEN "textDocument/publishDiagnostics" ELSE "none"
       /\ UNCHANGED <<isInitialized, isShutDown, rootUri>>

shutdown ==
  /\ Calls("shutdown")
  /\ isShutDown' = TRUE
  /\ code' = "result"
  /\ UNCHANGED <<isInitialized, rootUri, changedFiles, lpc>>

\* exit(isShutDown ? 0 : 1)
serverExit ==
  /\ Calls("exit")
  /\ lpc' = IF isShutDown THEN "exit0" ELSE "exit1"
  /\ code' = "none"
  /\ UNCHANGED <<isInitialized, isShutDown, rootUri, changedFiles>>

\* std::cin.eof() while reading the header: exit(0)
EndOfInput ==
  /\ lpc = "serving"
  /\ lpc' = "exit0"
  /\ UNCHANGED <<isInitialized, isShutDown, rootUri, changedFiles, nreq, request, called, code>>
  /\ UNCHANGED <<ingestVars, tupleVars, dstVars, pollVars>>

\* a failed read, or a header without Content-Length: exit(1)
BadInput ==
  /\ lpc = "serving"
  /\ lpc' = "exit1"
  /\ UNCHANGED <<isInitialized, isShutDown, rootUri, changedFiles, nreq, request, called, code>>
  /\ UNCHANGED <<ingestVars, tupleVars, dstVars, pollVars>>

NextLsp ==
  \/ Malformed
  \/ NotInitialized
  \/ AfterShutdown
  \/ NotImplemented
  \/ initialize
  \/ initialized
  \/ didOpen
  \/ didChange
  \/ didSave
  \/ didClose
  \/ didChangeWatchedFiles
  \/ shutdown
  \/ serverExit
  \/ EndOfInput
  \/ BadInput

(***************************************************************************)
(* Poll, the ppoll build: the set of descriptors waited on.                *)
(***************************************************************************)
Fds == 1..MaxFd

\* Poll::Poll
NewPoll ==
  /\ pfds = <<>>
  /\ ppc = "ok"
  /\ pop = [op |-> "none", fd |-> 0]

\* the while loop of Poll::remove: i counts from 0, p[i + 1] is pfds[i]
RECURSIVE RemoveLoop(_, _, _, _)
RemoveLoop(p, i, len, fd) ==
  IF i < len
  THEN IF p[i + 1] = fd
       THEN RemoveLoop([p EXCEPT ![i + 1] = p[len]], i, len - 1, fd)
       ELSE RemoveLoop(p, i + 1, len, fd)
  ELSE SubSeq(p, 1, len)

\* what &imp->pfds[0] can do: on an empty vector operator[] is undefined; a
\* build with the library's assertions aborts there, any other goes on
FirstEntry(p) == IF p = <<>> THEN {"ok", "aborted"} ELSE {"ok"}

PollAdd ==
  \E fd \in Fds :
    /\ ppc = "ok"
    /\ Len(pfds) < MaxPfds
    /\ pfds' = Append(pfds, fd)
    /\ pop' = [op |-> "add", fd |-> fd]
    /\ UNCHANGED <<ppc, ingestVars, tupleVars, dstVars, lspVars>>

PollRemove ==
  \E fd \in Fds, outcome \in FirstEntry(pfds) :
    /\ ppc = "ok"
    /\ ppc' = outcome
    /\ pfds' = IF outcome = "ok" THEN RemoveLoop(pfds, 0, Len(pfds), fd) ELSE pfds
    /\ pop' = [op |-> "remove", fd |-> fd]
    /\ UNCHANGED <<ingestVars, tupleVars, dstVars, lspVars>>

PollClear ==
  /\ ppc = "ok"
  /\ pfds' = <<>>
  /\ pop' = [op |-> "clear", fd |-> 0]
  /\ UNCHANGED <<ppc, ingestVars, tupleVars, dstVars, lspVars>>

NextPoll == PollAdd \/ PollRemove \/ PollClear

(***************************************************************************)
(* ingest: the lexer's tokens.                                             *)
(***************************************************************************)
STATE_IDLE == 0
STATE_NL == 1
STATE_NL_WS == 2

\* the bytes a TOKEN_WS can hold
WsBytes == {" ", "\t"}

RECURSIVE SeqsUpTo(_, _)
SeqsUpTo(S, n) ==
  IF n = 0 THEN {<<>>}
  ELSE LET shorter == SeqsUpTo(S, n - 1)
       IN shorter \cup {Append(s, x) : s \in {t \in shorter : Len(t) = n - 1}, x \in S}

WsTexts == SeqsUpTo(WsBytes, MaxIndent) \ {<<>>}

\* token.id, token.ok and, for a TOKEN_WS, the bytes it covers.  "ID" stands
\* for every token that is not whitespace, comment, newline or end of file.
TokenIds == {"WS", "COMMENT", "NL", "EOF", "ID"}

Tokens ==
  {[id |-> "WS", ok |-> o, text |-> t] : o \in BOOLEAN, t \in WsTexts}
    \cup {[id |-> i, ok |-> o, text |-> <<>>] : i \in TokenIds \ {"WS"}, o \in BOOLEAN}

ShortTokens == {t \in Tokens : Len(t.text) <= 1}

(***************************************************************************)
(* ingest: indentation reconciliation.                                     *)
(***************************************************************************)
\* newdent.compare(0, indent.size(), indent) == 0
IsPrefix(ind, newdent) ==
  /\ Len(ind) <= Len(newdent)
  /\ SubSeq(newdent, 1, Len(ind)) = ind

\* std::string::resize
Resize(s, n) == [i \in 1..n |-> IF i <= Len(s) THEN s[i] ELSE "NUL"]

Front(s) == SubSeq(s, 1, Len(s) - 1)

Repeat(x, n) == [i \in 1..n |-> x]

\* the while loop that pops indent scopes until indent is a prefix of newdent
RECURSIVE PopIndent(_, _, _)
PopIndent(ind, stk, newdent) ==
  IF IsPrefix(ind, newdent)
  THEN [indent |-> ind, stack |-> stk, dedents |-> 0, bad |-> FALSE]
  ELSE IF stk = <<>>
  THEN [indent |-> ind, stack |-> stk, dedents |-> 1, bad |-> TRUE]
  ELSE LET r == PopIndent(Resize(ind, stk[Len(stk)]), Front(stk), newdent)
       IN [r EXCEPT !.dedents = @ + 1]

\* an INDENT that pushes the level and leaves indent as it was
PushIndentNoSwap(ind, stk, newdent) ==
  IF Len(newdent) > Len(ind)
  THEN [indent |-> ind, stack |-> Append(stk, Len(ind)), out |-> <<"INDENT">>]
  ELSE [indent |-> ind, stack |-> stk, out |-> <<>>]

\* the INDENT pushed when newdent is longer than what is left of indent
PushIndent(ind, stk, newdent) ==
  IF Len(newdent) > Len(ind)
  THEN [indent |-> newdent, stack |-> Append(stk, Len(ind)), out |-> <<"INDENT">>]
  ELSE [indent |-> ind, stack |-> stk, out |-> <<>>]

\* the default: case of the switch: DEDENTs, at most one INDENT, and a NL
\* when the parser can shift one
Reconcile(ind, stk, newdent, shiftsNL) ==
  LET p == PopIndent(ind, stk, newdent)
      q == PushIndent(p.indent, p.stack, newdent)
  IN [indent |-> q.indent,
      stack  |-> q.stack,
      bad    |-> p.bad,
      out    |-> Repeat("DEDENT", p.dedents) \o q.out
                   \o (IF shiftsNL THEN <<"NL">> ELSE <<>>)]

\* an EOF handling that leaves the open indentation levels open
EofDedentsNone(stk) == <<>>

\* the DEDENTs passed to Parse when TOKEN_EOF is lexed
EofDedents(stk) == Repeat("DEDENT", Len(stk))

\* if (token.id == TOKEN_EOF) { ... } Parse(parser, token.id, tinfo, pi);
Dispatch(tok, stk, shiftsNL) ==
  IF tok.id = "EOF"
  THEN [stack |-> <<>>,
        out   |-> EofDedents(stk) \o (IF shiftsNL THEN <<"NL">> ELSE <<>>) \o <<"EOF">>]
  ELSE [stack |-> stk, out |-> <<tok.id>>]

\* an illegal token that is handled but never reported
ReportNothing(tok) == 0

\* if (!token.ok) pi.reporter->report(REPORT_ERROR, ...)
Report(tok) == IF tok.ok THEN 0 ELSE 1

(***************************************************************************)
(* ingest: one iteration of the do-while loop.  s holds state, indent,     *)
(* indent_stack and ws; sh1 and sh2 are the answers of                     *)
(* ParseShifts(parser, TOKEN_NL) in the reconciliation and at EOF, which   *)
(* the grammar decides.  The result holds the new values, the tokens       *)
(* passed to Parse (out) and whether the loop ends (done).                 *)
(***************************************************************************)
\* continue;
Continue(s, newState, newWs) ==
  [state |-> newState, indent |-> s.indent, stack |-> s.stack, ws |-> newWs,
   out |-> <<>>, bad |-> FALSE, done |-> FALSE, nl |-> FALSE]

\* pi.fcontent->newline(token.end); nl = token; state = STATE_NL; continue;
Newline(s, newWs) == [Continue(s, STATE_NL, newWs) EXCEPT !.nl = TRUE]

\* break out of the switch with the indentation settled, then the EOF
\* handling and Parse(parser, token.id, tinfo, pi)
Break(s, tok, ind, stk, out, bad, sh2) ==
  LET d == Dispatch(tok, stk, sh2)
  IN [state |-> STATE_IDLE, indent |-> ind, stack |-> d.stack, ws |-> s.ws,
      out |-> out \o d.out, bad |-> bad, done |-> (tok.id = "EOF"), nl |-> FALSE]

IndentCaseSilent(s, tok, newdent, sh1, sh2) ==
  IF tok.id = "NL" THEN Continue(s, STATE_NL, newdent)
  ELSE IF tok.id = "COMMENT" THEN Continue(s, STATE_IDLE, newdent)
  ELSE LET r == Reconcile(s.indent, s.stack, newdent, sh1)
       IN Break(s, tok, r.indent, r.stack, r.out, r.bad, sh2)

\* case STATE_NL_WS, also reached by falling through from STATE_NL
IndentCase(s, tok, newdent, sh1, sh2) ==
  IF tok.id = "NL" THEN Newline(s, newdent)
  ELSE IF tok.id = "COMMENT" THEN Continue(s, STATE_IDLE, newdent)
  ELSE LET r == Reconcile(s.indent, s.stack, newdent, sh1)
       IN Break(s, tok, r.indent, r.stack, r.out, r.bad, sh2)

\* an iteration that forgets ws = nl when no whitespace follows the newline
IterateStaleWs(s, tok, sh1, sh2) ==
  IF s.state = STATE_IDLE
  THEN IF tok.id \in {"WS", "COMMENT"} THEN Continue(s, STATE_IDLE, s.ws)
       ELSE IF tok.id = "NL" THEN Newline(s, s.ws)
       ELSE Break(s, tok, s.indent, s.stack, <<>>, FALSE, sh2)
  ELSE IF s.state = STATE_NL
  THEN IF tok.id = "WS" THEN Continue(s, STATE_NL_WS, tok.text)
       ELSE IndentCase(s, tok, s.ws, sh1, sh2)
  ELSE IndentCase(s, tok, s.ws, sh1, sh2)

Iterate(s, tok, sh1, sh2) ==
  IF s.state = STATE_IDLE
  THEN IF tok.id \in {"WS", "COMMENT"} THEN Continue(s, STATE_IDLE, s.ws)
       ELSE IF tok.id = "NL" THEN Newline(s, s.ws)
       ELSE Break(s, tok, s.indent, s.stack, <<>>, FALSE, sh2)
  ELSE IF s.state = STATE_NL
  THEN IF tok.id = "WS" THEN Continue(s, STATE_NL_WS, tok.text)
       ELSE IndentCase(s, tok, <<>>, sh1, sh2)
  ELSE IndentCase(s, tok, s.ws, sh1, sh2)

Machine == [state |-> state, indent |-> indent, stack |-> indent_stack, ws |-> ws]

\* the number of bytes a token can span: a TOKEN_WS its text, a TOKEN_EOF
\* none, a TOKEN_NL one or two (LF, CRLF)
Sizes(tok) ==
  CASE tok.id = "WS" -> {Len(tok.text)}
    [] tok.id = "EOF" -> {0}
    [] tok.id = "NL" -> {1, 2}
    [] OTHER -> {1}

\* a run followed without its FileContent: offsets and newline table left out
NoContent == [followed |-> FALSE, end |-> 0, newlines |-> <<>>]

\* fcontent->start with an empty newline table
EmptyContent == [followed |-> TRUE, end |-> 0, newlines |-> <<>>]

\* FileContent::newline(position): the offset goes to the end of the table
newline(newlines, position) == Append(newlines, position)

\* the lexer returned a token of size bytes, so token.end moves, and the
\* iteration registered a newline at token.end or did not
Lexed(fc, size, nl) ==
  IF ~fc.followed THEN fc
  ELSE [fc EXCEPT !.end = @ + size,
                  !.newlines = IF nl THEN newline(@, fc.end + size) ELSE @]

\* the byte at token.end is } (brace) or not, and the parser in its current
\* state would shift TOKEN_STR_CLOSE (str), TOKEN_REG_CLOSE (reg), or not
Peek(brace, str, reg) == [brace |-> brace, str |-> str, reg |-> reg]

Peeks == {Peek(b, s, r) : b \in BOOLEAN, s \in BOOLEAN, r \in BOOLEAN}

\* the streams with no } byte, the parser where it shifts neither
NoBrace == {Peek(FALSE, FALSE, FALSE)}

\* the selection with TOKEN_REG_CLOSE asked first
LexerRegFirst(pk) ==
  IF pk.brace
  THEN IF pk.reg THEN "lex_rstr"
       ELSE IF pk.str THEN "lex_dstr"
       ELSE "lex_wake"
  ELSE "lex_wake"

\* a peek made after the tokens synthesized for the line were passed
PeekAfterLine(before, out) == Len(before) + Len(out) - 1

\* ParseShifts is asked at the top of the iteration, before its switch: the
\* parser has been passed the tokens of the earlier iterations (before) and
\* none of this one's (out)
PeekAt(before, out) == Len(before)

\* if (*token.end == '}') { ParseShifts(parser, TOKEN_STR_CLOSE) ... }: the
\* lexer the iteration calls
Lexer(pk) ==
  IF pk.brace
  THEN IF pk.str THEN "lex_dstr"
       ELSE IF pk.reg THEN "lex_rstr"
       ELSE "lex_wake"
  ELSE "lex_wake"

\* the lexer returns tok (a stream is finite and ends in EOF; what starts at
\* a } is no whitespace, comment, newline or EOF) and the loop body runs on
\* it; limit bounds the length of the stream
Step(tok, sh1, sh2, pk, limit) ==
  LET r == Iterate(Machine, tok, sh1, sh2)
  IN /\ ipc = "lex"
     /\ \E size \in Sizes(tok) : fcontent' = Lexed(fcontent, size, r.nl)
     /\ lexed < limit
     /\ (lexed = limit - 1 => tok.id = "EOF")
     /\ (pk.brace => tok.id = "ID")
     /\ lexer' = Lexer(pk)
     /\ peek' = pk
     /\ peekAt' = IF pk.brace THEN PeekAt(parsed, r.out) ELSE 0
     /\ lexed' = lexed + 1
     /\ illegal' = illegal + (IF tok.ok THEN 0 ELSE 1)
     /\ token' = [id |-> tok.id, ok |-> tok.ok]
     /\ reports' = reports + Report(tok)
     /\ state' = r.state
     /\ indent' = r.indent
     /\ indent_stack' = r.stack
     /\ ws' = r.ws
     /\ parsed' = parsed \o r.out
     /\ popEmpty' = (popEmpty \/ r.bad)
     /\ ipc' = IF r.done THEN "done" ELSE "lex"
     /\ UNCHANGED <<tupleVars, dstVars, lspVars, pollVars>>

\* what ParseShifts(parser, TOKEN_NL) can answer where it is asked; FALSE
\* stands for the iterations that do not ask
ShiftAnswers(asked) == IF asked THEN BOOLEAN ELSE {FALSE}

\* case STATE_IDLE, on a token of T lexed at a peek of K
IdleOn(T, K, limit) ==
  /\ state = STATE_IDLE
  /\ \E tok \in T, pk \in K :
       \E sh2 \in ShiftAnswers(tok.id = "EOF") : Step(tok, FALSE, sh2, pk, limit)

\* case STATE_NL, on a token of T lexed at a peek of K
NlOn(T, K, limit) ==
  /\ state = STATE_NL
  /\ \E tok \in T, pk \in K :
       \E sh1 \in ShiftAnswers(tok.id \notin {"WS", "NL", "COMMENT"}),
          sh2 \in ShiftAnswers(tok.id = "EOF") : Step(tok, sh1, sh2, pk, limit)

\* case STATE_NL_WS, on a token of T lexed at a peek of K
NlWsOn(T, K, limit) ==
  /\ state = STATE_NL_WS
  /\ \E tok \in T, pk \in K :
       \E sh1 \in ShiftAnswers(tok.id \notin {"NL", "COMMENT"}),
          sh2 \in ShiftAnswers(tok.id = "EOF") : Step(tok, sh1, sh2, pk, limit)

IdleTuple ==
  /\ tpc = "none"
  /\ tsum = <<>>
  /\ tdefs = <<>>
  /\ tvalue = <<>>
  /\ tresult = 0

\* struct Symbols: the defs, types and topics SymbolMaps.  A std::map is the
\* set of its (key, value) pairs, the key in the field name.
EmptySymbols == [defs |-> {}, types |-> {}, topics |-> {}]

\* the imports of a DefMap: a Symbols with its mixed map and import_all
EmptyImports ==
  [defs |-> {}, types |-> {}, topics |-> {}, mixed |-> {}, import_all |-> <<>>]

NoLocation == [file |-> 0, item |-> 0, part |-> 0]

NoNode == [id |-> 0, name |-> <<>>, children |-> <<>>]

\* a default-constructed Package, with the one File dst_top gives it
NewPackage == [name |-> <<>>, exports |-> EmptySymbols, package |-> EmptySymbols]

NewFile(location) ==
  [content |-> [location |-> location, defs |-> {}, imports |-> EmptyImports],
   local |-> EmptySymbols,
   topics |-> {}]

\* no dst_top run has started
IdleDst ==
  /\ top = [packages |-> {}, globals |-> EmptySymbols]
  /\ package = NewPackage
  /\ file = NewFile(NoLocation)
  /\ globals = EmptySymbols
  /\ errors = EmptyBag
  /\ binds = <<>>
  /\ topdef = NoNode
  /\ dpc = "idle"
  /\ nfiles = 0
  /\ nitems = 0

\* ingest is entered on a FileContent fc: token.end = pi.fcontent->start
InitRun(fc) ==
  /\ IdleTuple
  /\ IdleDst
  /\ NewLSP
  /\ NewPoll
  /\ state = STATE_IDLE
  /\ indent = <<>>
  /\ indent_stack = <<>>
  /\ ws = <<>>
  /\ token = [id |-> "NONE", ok |-> TRUE]
  /\ parsed = <<>>
  /\ reports = 0
  /\ lexed = 0
  /\ illegal = 0
  /\ ipc = "lex"
  /\ popEmpty = FALSE
  /\ lexer = "none"
  /\ peek = Peek(FALSE, FALSE, FALSE)
  /\ fcontent = fc
  /\ peekAt = 0

InitIngest == InitRun(NoContent)

NextIngest ==
  \/ IdleOn(Tokens, NoBrace, MaxTokens)
  \/ NlOn(Tokens, NoBrace, MaxTokens)
  \/ NlWsOn(Tokens, NoBrace, MaxTokens)

SpecIngest == InitIngest /\ [][NextIngest]_vars

\* the same iterations on the streams whose TOKEN_WS are one byte long
NextIngestShort ==
  \/ IdleOn(ShortTokens, NoBrace, MaxTokens)
  \/ NlOn(ShortTokens, NoBrace, MaxTokens)
  \/ NlWsOn(ShortTokens, NoBrace, MaxTokens)

\* the iterations on short streams that hold } bytes, the parser in any state
NextLex ==
  \/ IdleOn(ShortTokens, Peeks, MaxLexed)
  \/ NlOn(ShortTokens, Peeks, MaxLexed)
  \/ NlWsOn(ShortTokens, Peeks, MaxLexed)

SpecLex == InitIngest /\ [][NextLex]_vars

\* the iterations of a run on a FileContent whose newline table is empty
NextLines ==
  \/ IdleOn(ShortTokens, NoBrace, MaxLines)
  \/ NlOn(ShortTokens, NoBrace, MaxLines)
  \/ NlWsOn(ShortTokens, NoBrace, MaxLines)

SpecLines == InitRun(EmptyContent) /\ [][NextLines]_vars

\* the loop is straight-line code of one thread: an iteration that can run
\* does.  Liveness is checked over the streams of ShortTokens.
SpecIngestFair ==
  InitIngest /\ [][NextIngestShort]_vars /\ WF_vars(NextIngestShort)

(***************************************************************************)
(* Claims about ingest.                                                    *)
(***************************************************************************)
Count(s, x) == Cardinality({i \in DOMAIN s : s[i] = x})

Prefix(s, k) == SubSeq(s, 1, k)

\* C1: the INDENT and DEDENT tokens passed to Parse are balanced: no prefix
\* of the parser input holds more DEDENTs than INDENTs, and up to the EOF the
\* two counts are equal.
C1_BalancedOffsides ==
  /\ \A k \in 0..Len(parsed) :
       Count(Prefix(parsed, k), "DEDENT") <= Count(Prefix(parsed, k), "INDENT")
  /\ \A k \in DOMAIN parsed :
       parsed[k] = "EOF" =>
         Count(Prefix(parsed, k), "DEDENT") = Count(Prefix(parsed, k), "INDENT")

\* an ingest run that has finished after two INDENTs, one DEDENT of them
\* passed by a reconciliation before the EOF was lexed
C1_Witness ==
  /\ ipc = "done"
  /\ Count(parsed, "INDENT") >= 2
  /\ \E k \in DOMAIN parsed :
       parsed[k] = "DEDENT" /\ \E j \in (k + 1)..Len(parsed) : parsed[j] = "ID"

\* C4: an illegal token never aborts ingest: each is reported once and then
\* handled like a legal token of its kind, and EOF is eventually passed to
\* Parse, once and last.
C4_NeverAborts ==
  /\ [](reports = illegal)
  /\ [][\E sh1 \in BOOLEAN, sh2 \in BOOLEAN :
          LET legal == [id |-> token'.id, ok |-> TRUE, text |-> ws']
              r == Iterate(Machine, legal, sh1, sh2)
          IN /\ state' = r.state
             /\ indent' = r.indent
             /\ indent_stack' = r.stack
             /\ ws' = r.ws
             /\ parsed' = parsed \o r.out
             /\ ipc' = IF r.done THEN "done" ELSE "lex"]_vars
  /\ [](ipc = "lex" => Count(parsed, "EOF") = 0)
  /\ [](ipc = "done" =>
          /\ Count(parsed, "EOF") = 1
          /\ parsed[Len(parsed)] = "EOF")
  /\ <>(ipc = "done")

\* two illegal tokens, the EOF one of them, were reported, the indent
\* machine passed an INDENT, and EOF was passed
C4_Witness ==
  /\ ipc = "done"
  /\ illegal >= 2
  /\ reports >= 2
  /\ token.id = "EOF"
  /\ ~token.ok
  /\ Count(parsed, "INDENT") >= 1

(***************************************************************************)
(* todst.cpp: identifiers, locations and expressions.  An identifier is a  *)
(* byte string, here a sequence of one-character strings, so that          *)
(* std::string's + is sequence concatenation.                              *)
(***************************************************************************)
Digits == <<"0", "1", "2", "3", "4", "5", "6", "7", "8", "9">>

\* std::to_string of a size_t
RECURSIVE ToDecimal(_)
ToDecimal(n) ==
  IF n < 10 THEN <<Digits[n + 1]>>
  ELSE ToDecimal(n \div 10) \o <<Digits[(n % 10) + 1]>>

UpperLetters == {"A", "B", "C", "E", "P", "Q", "T", "X", "Y", "Z", "W", "V"}

LowerLetters == {"a", "b", "e", "f", "g", "s", "t", "x"}

\* lex_kind: the kind of an identifier, by its first character
lex_kind(name) ==
  IF name # <<>> /\ name[1] \in UpperLetters THEN "UPPER"
  ELSE IF name # <<>> /\ name[1] \in LowerLetters THEN "LOWER"
  ELSE "OPERATOR"

\* lex_kind(name) == UPPER
IsUpper(name) == lex_kind(name) = "UPPER"

FLAG_SYNTHETIC == "FLAG_SYNTHETIC"

Lambda(location, name, body) ==
  [type |-> "Lambda", location |-> location, flags |-> {}, name |-> name, body |-> body]

App(location, fn, val) ==
  [type |-> "App", location |-> location, flags |-> {}, fn |-> fn, val |-> val]

VarRef(location, name) ==
  [type |-> "VarRef", location |-> location, flags |-> {}, name |-> name]

\* Construct(location, sump, &c): the Sum by name, the Constructor by value
Construct(location, sum, cons) ==
  [type |-> "Construct", location |-> location, flags |-> {}, sum |-> sum.name,
   cons |-> cons]

\* Get(location, sump, &c, index)
Get(location, sum, cons, index) ==
  [type |-> "Get", location |-> location, flags |-> {}, sum |-> sum.name,
   cons |-> cons, index |-> index]

\* a DefMap with its defs (name -> DefValue) and its body
DefMapExpr(location, defs, body) ==
  [type |-> "DefMap", location |-> location, flags |-> {}, defs |-> defs, body |-> body]

DefValue(location, body) == [location |-> location, body |-> body]

\* the flags left as they are
Unflagged(e) == e

Synthetic(e) == [e EXCEPT !.flags = @ \cup {FLAG_SYNTHETIC}]

\* struct Definition, with the exports and globals arguments bind_def gets
Definition(name, location, body, exportb, globalb) ==
  [name |-> name, location |-> location, body |-> body,
   exportb |-> exportb, globalb |-> globalb]

\* the Location of child k of a top-level node (0: the node itself)
Part(loc, k) == [loc EXCEPT !.part = k]

(***************************************************************************)
(* parse_tuple: the Sum and the definitions of one tuple declaration.      *)
(* members[i+1] holds the tag and the flags of field i; name is the        *)
(* tuple's name, loc its location.                                         *)
(***************************************************************************)
sGet == <<"g", "e", "t">>
sSet == <<"s", "e", "t">>
sEdit == <<"e", "d", "i", "t">>
sFn == <<"f", "n">>
sArg == <<"_", " ", "x">>
sAny == <<"_">>

\* "_ a" + std::string(4 - x.size(), '0') + x, x = std::to_string(members.size()-inner)
SlotName(size, inner) ==
  LET x == ToDecimal(size - inner)
  IN <<"_", " ", "a">> \o Repeat("0", 4 - Len(x)) \o x

\* sump->addConstructor(std::move(tuple)): the one Constructor of the tuple
TupleConstructor(name, members) ==
  [ast |-> [name |-> name,
            args |-> [k \in 1..Len(members) |-> [tag |-> members[k].tag]]],
   index |-> 0]

TupleSum(name, members) ==
  [name |-> name, members |-> <<TupleConstructor(name, members)>>]

\* the constructor function: a Lambda per field around the Construct
RECURSIVE CurryTags(_, _, _, _)
CurryTags(loc, args, i, body) ==
  IF i = 0 THEN body
  ELSE CurryTags(loc, args, i - 1, Lambda(loc, args[i].tag, body))

\* the defs of the edit DefMap
EditDefs(sum, c, memberToken, mname, size, outer) ==
  [n \in {SlotName(size, inner) : inner \in 0..(size - 1)} |->
     LET inner == CHOOSE k \in 0..(size - 1) : SlotName(size, k) = n
         select == Get(memberToken, sum, c, inner)
     IN DefValue(memberToken,
          IF inner = outer
          THEN App(memberToken,
                 VarRef(memberToken, sFn \o mname),
                 App(memberToken,
                   Lambda(memberToken, sAny, select),
                   VarRef(memberToken, sArg)))
          ELSE select)]

\* the defs of the set DefMap
SetDefs(sum, c, memberToken, mname, size, outer) ==
  [n \in {SlotName(size, inner) : inner \in 0..(size - 1)} |->
     LET inner == CHOOSE k \in 0..(size - 1) : SlotName(size, k) = n
     IN DefValue(memberToken,
          IF inner = outer
          THEN VarRef(memberToken, mname)
          ELSE Get(memberToken, sum, c, inner))]

\* the body of the for loop over the members, for field i, when the field's
\* tag is upper-case: the get, edit and set definitions in binding order
FieldAccessors(sum, c, name, loc, members, i, outer) ==
  LET mname == members[i + 1].tag
      memberToken == Part(loc, loc.part + i + 1)
      size == Len(members)
      exportb == members[i + 1].exportf
      globalb == members[i + 1].globalf
      getfn == Synthetic(Lambda(memberToken, sAny, Get(memberToken, sum, c, i)))
      editmap == DefMapExpr(memberToken,
                   EditDefs(sum, c, memberToken, mname, size, outer),
                   Construct(memberToken, sum, c))
      editfn == Synthetic(Lambda(memberToken, sFn \o mname,
                            Lambda(memberToken, sArg, editmap)))
      setmap == DefMapExpr(memberToken,
                  SetDefs(sum, c, memberToken, mname, size, outer),
                  Construct(memberToken, sum, c))
      setfn == Synthetic(Lambda(memberToken, mname,
                           Lambda(memberToken, sArg, setmap)))
  IN << Definition(sGet \o name \o mname, memberToken, getfn, exportb, globalb),
        Definition(sEdit \o name \o mname, memberToken, editfn, exportb, globalb),
        Definition(sSet \o name \o mname, memberToken, setfn, exportb, globalb) >>

\* for (size_t i = 0; i < members.size(); ++i) { ... ++outer; }
RECURSIVE AccessorLoop(_, _, _, _, _, _, _)
AccessorLoop(sum, c, name, loc, members, i, outer) ==
  IF i >= Len(members) THEN <<>>
  ELSE IF ~IsUpper(members[i + 1].tag)
  THEN AccessorLoop(sum, c, name, loc, members, i + 1, outer)
  ELSE FieldAccessors(sum, c, name, loc, members, i, outer)
         \o AccessorLoop(sum, c, name, loc, members, i + 1, outer + 1)

\* the accessors given the flags of the tuple declaration
TupleDefinitionsFlagged(name, loc, flags, members) ==
  LET sum == TupleSum(name, members)
      c == sum.members[1]
      construct == CurryTags(loc, c.ast.args, Len(c.ast.args), Construct(loc, sum, c))
      flagged == [k \in DOMAIN members |->
                    [members[k] EXCEPT !.exportf = flags.exportf,
                                       !.globalf = flags.globalf]]
  IN <<Definition(name, loc, construct, flags.exportf, flags.globalf)>>
       \o AccessorLoop(sum, c, name, loc, flagged, 0, 0)

\* the Definitions parse_tuple passes to bind_def, in order: the constructor,
\* then the accessors
TupleDefinitions(name, loc, flags, members) ==
  LET sum == TupleSum(name, members)
      c == sum.members[1]
      construct == CurryTags(loc, c.ast.args, Len(c.ast.args), Construct(loc, sum, c))
  IN <<Definition(name, loc, construct, flags.exportf, flags.globalf)>>
       \o AccessorLoop(sum, c, name, loc, members, 0, 0)

(***************************************************************************)
(* What the generated expressions compute.  A tuple value maps the slots   *)
(* 0..size-1 to values; env.vars holds the Lambda arguments in scope by    *)
(* name and env.arg the argument of the innermost Lambda, which is what a  *)
(* Get reads.  A Construct under a DefMap fills slot inner from the def    *)
(* named SlotName(size, inner).                                            *)
(***************************************************************************)
Bind(env, name, val) ==
  [vars |-> [n \in DOMAIN env.vars \cup {name} |->
               IF n = name THEN val ELSE env.vars[n]],
   arg |-> val]

RECURSIVE Eval(_, _)
Eval(e, env) ==
  CASE e.type = "Get" -> env.arg[e.index]
    [] e.type = "VarRef" -> env.vars[e.name]
    [] e.type = "App" ->
         IF e.fn.type = "Lambda"
         THEN Eval(e.fn.body, Bind(env, e.fn.name, Eval(e.val, env)))
         ELSE Eval(e.fn, env)[Eval(e.val, env)]
    [] e.type = "DefMap" ->
         LET size == Len(e.body.cons.ast.args)
         IN [inner \in 0..(size - 1) |-> Eval(e.defs[SlotName(size, inner)].body, env)]

EmptyEnv == [vars |-> <<>>, arg |-> <<>>]

\* fn applied to one argument, fn a Lambda
Apply1(fn, a) == Eval(fn.body, Bind(EmptyEnv, fn.name, a))

\* fn applied to two arguments, fn a Lambda of a Lambda
Apply2(fn, a, b) ==
  Eval(fn.body.body, Bind(Bind(EmptyEnv, fn.name, a), fn.body.name, b))

(***************************************************************************)
(* The accessors of one declared tuple, at work on a value.                *)
(***************************************************************************)
Vals == 0..MaxVal

FieldTags == <<"X", "Y", "Z", "W", "V">>

NoFlags == [exportf |-> FALSE, globalf |-> FALSE]

\* field k is tagged with its own upper-case name or not tagged at all
MemberLists ==
  UNION {[1..n -> BOOLEAN] : n \in 1..MaxFields}

MembersOf(tagged) ==
  [k \in DOMAIN tagged |->
     [tag |-> IF tagged[k] THEN <<FieldTags[k]>> ELSE <<>>,
      exportf |-> FALSE, globalf |-> FALSE]]

TupleName == <<"T">>

TupleLoc == [file |-> 1, item |-> 1, part |-> 1]

\* the definition bound under a name, as the DefMap would hold it
Bound(defs, name) == (CHOOSE k \in DOMAIN defs : defs[k].name = name)

Accessor(prefix, i) ==
  tdefs[Bound(tdefs, prefix \o TupleName \o tsum.members[1].ast.args[i + 1].tag)].body

\* the fields parse_tuple generated accessors for
AccessorFields ==
  {i \in 0..(Len(tsum.members[1].ast.args) - 1) :
     IsUpper(tsum.members[1].ast.args[i + 1].tag)}

TupleValues == [0..(Len(tsum.members[1].ast.args) - 1) -> Vals]

DeclareTuple ==
  /\ tpc = "none"
  /\ \E tagged \in MemberLists :
       LET members == MembersOf(tagged)
       IN /\ tsum' = TupleSum(TupleName, members)
          /\ tdefs' = TupleDefinitions(TupleName, TupleLoc, NoFlags, members)
          /\ tvalue' \in [0..(Len(members) - 1) -> Vals]
  /\ tpc' = "live"
  /\ UNCHANGED <<tresult, ingestVars, dstVars, lspVars, pollVars>>

CallGet ==
  /\ tpc = "live"
  /\ \E i \in AccessorFields : tresult' = Apply1(Accessor(sGet, i), tvalue)
  /\ UNCHANGED <<tpc, tsum, tdefs, tvalue, ingestVars, dstVars, lspVars, pollVars>>

CallSet ==
  /\ tpc = "live"
  /\ \E i \in AccessorFields, x \in Vals :
       tvalue' = Apply2(Accessor(sSet, i), x, tvalue)
  /\ UNCHANGED <<tpc, tsum, tdefs, tresult, ingestVars, dstVars, lspVars, pollVars>>

CallEdit ==
  /\ tpc = "live"
  /\ \E i \in AccessorFields, g \in [Vals -> Vals] :
       tvalue' = Apply2(Accessor(sEdit, i), g, tvalue)
  /\ UNCHANGED <<tpc, tsum, tdefs, tresult, ingestVars, dstVars, lspVars, pollVars>>

IdleIngest ==
  /\ state = STATE_IDLE
  /\ indent = <<>>
  /\ indent_stack = <<>>
  /\ ws = <<>>
  /\ token = [id |-> "NONE", ok |-> TRUE]
  /\ parsed = <<>>
  /\ reports = 0
  /\ lexed = 0
  /\ illegal = 0
  /\ ipc = "done"
  /\ popEmpty = FALSE
  /\ lexer = "none"
  /\ peek = Peek(FALSE, FALSE, FALSE)
  /\ fcontent = NoContent
  /\ peekAt = 0

InitTuple == IdleIngest /\ IdleTuple /\ IdleDst /\ NewLSP /\ NewPoll

NextTuple == DeclareTuple \/ CallGet \/ CallSet \/ CallEdit

SpecTuple == InitTuple /\ [][NextTuple]_vars

(***************************************************************************)
(* Claims about the tuple accessors.                                       *)
(***************************************************************************)
\* C2: for every field with accessors, get (set x v) = x and
\* set (get v) v = v: set replaces the slot that get reads.
C2_GetSetLaws ==
  tpc = "live" =>
    \A i \in AccessorFields, v \in TupleValues :
      /\ \A x \in Vals :
           Apply1(Accessor(sGet, i), Apply2(Accessor(sSet, i), x, v)) = x
      /\ Apply2(Accessor(sSet, i), Apply1(Accessor(sGet, i), v), v) = v

\* C3: for every field i with accessors, edit g v = set (g (get v)) v, which
\* is v with slot i replaced by g of slot i.
C3_EditLaw ==
  tpc = "live" =>
    \A i \in AccessorFields, v \in TupleValues, g \in [Vals -> Vals] :
      /\ Apply2(Accessor(sEdit, i), g, v)
           = Apply2(Accessor(sSet, i), g[Apply1(Accessor(sGet, i), v)], v)
      /\ Apply2(Accessor(sEdit, i), g, v) = [v EXCEPT ![i] = g[v[i]]]

(***************************************************************************)
(* todst.cpp: the CST dst_top reads.  A node has its id, the identifier    *)
(* its token relexes to (CST_ID, CST_OP) or its keyword (CST_KIND), and    *)
(* its child nodes.  A Location names a file, a top-level node of it and   *)
(* a child of that node.                                                   *)
(***************************************************************************)
CST_APP == 128
CST_BINARY == 130
CST_DATA == 133
CST_DEF == 134
CST_EXPORT == 135
CST_FLAG_EXPORT == 136
CST_FLAG_GLOBAL == 137
CST_ID == 140
CST_IDEQ == 141
CST_IMPORT == 143
CST_KIND == 145
CST_OP == 149
CST_PACKAGE == 150
CST_TOPIC == 158
CST_TUPLE == 159
CST_TUPLE_ELT == 160
CST_ERROR == 255

TOKEN_KW_DEF == <<"d", "e", "f">>
TOKEN_KW_TYPE == <<"t", "y", "p", "e">>
TOKEN_KW_TOPIC == <<"t", "o", "p", "i", "c">>

SYM_LEAF == "SYM_LEAF"

Node(id, name, children) == [id |-> id, name |-> name, children |-> children]

sBuiltin == <<"b", "u", "i", "l", "t", "i", "n">>
sBinary == <<"b", "i", "n", "a", "r", "y", " ">>
sColon == <<":">>
sBadType == <<"B", "a", "d", "T", "y", "p", "e">>
sAt == <<"@">>
sWake == <<"w", "a", "k", "e">>

\* a qualification that forgets the name
QualifyPackageOnly(name, pkgname) == sAt \o pkgname

\* name + "@" + package
Qualify(name, pkgname) == name \o sAt \o pkgname

\* the pair (name, SymbolSource(location, qualified, flags)) of a SymbolMap
SymbolSource(name, location, qualified, flags) ==
  [name |-> name, location |-> location, qualified |-> qualified, flags |-> flags]

\* the keys of a std::map
Keys(map) == {e.name : e \in map}

\* map.find(name)->second, with its key
Find(map, name) == CHOOSE e \in map : e.name = name

\* an insert that does not look for the key
InsertAlways(map, e) == map \cup {e}

\* std::map::insert: nothing happens when the key is present
Insert(map, e) == IF e.name \in Keys(map) THEN map ELSE map \cup {e}

\* what the loop over the top-level nodes works on
Desugar ==
  [package |-> package, file |-> file, globals |-> globals, errors |-> errors,
   binds |-> binds, aborted |-> FALSE]

\* ERROR(loc, stream): one diagnostic to the reporter
ERROR(d, location, what, name) ==
  [d EXCEPT !.errors =
     @ (+) SetToBag({[location |-> location, what |-> what, name |-> name]})]

\* a failed assert ends the process
Abort(d) == [d EXCEPT !.aborted = TRUE]

\* relex_id: the identifier of a CST_ID or CST_OP node
relex_id(element) == element.name

\* what relex_id makes of the first token under a node that is no identifier,
\* in a build without assertions
Relexed == {<<"e">>, <<"E">>}

\* getIdentifier: the assert ends the process when the node is neither CST_ID
\* nor CST_OP; a build with NDEBUG goes on with whatever the token relexes to
getIdentifier(element) ==
  IF element.id = CST_ID \/ element.id = CST_OP
  THEN {[aborted |-> FALSE, id |-> relex_id(element)]}
  ELSE {[aborted |-> TRUE, id |-> <<>>]}
         \cup {[aborted |-> FALSE, id |-> g] : g \in Relexed}

\* the name taken from every declaration that is not builtin
parse_package_last(node, loc, d) ==
  LET child == node.children[1]
      named(id) ==
        IF id = sBuiltin
        THEN ERROR(d, Part(loc, 1), "package name 'builtin' is illegal", id)
        ELSE [d EXCEPT !.package.name = id]
  IN {IF g.aborted THEN Abort(d) ELSE named(g.id) : g \in getIdentifier(child)}

parse_package(node, loc, d) ==
  LET child == node.children[1]
      named(id) ==
        IF id = sBuiltin
        THEN ERROR(d, Part(loc, 1), "package name 'builtin' is illegal", id)
        ELSE IF d.package.name = <<>>
        THEN [d EXCEPT !.package.name = id]
        ELSE ERROR(d, loc, "package name redefined", id)
  IN {IF g.aborted THEN Abort(d) ELSE named(g.id) : g \in getIdentifier(child)}

\* every import taken for an import of definitions
KindMapDefs(c, default) == "defs"

\* the map a CST_KIND child selects

KindMap(c, default) ==
  IF Len(c) >= 2 /\ c[2].id = CST_KIND
  THEN CASE c[2].name = TOKEN_KW_DEF -> "defs"
         [] c[2].name = TOKEN_KW_TYPE -> "types"
         [] c[2].name = TOKEN_KW_TOPIC -> "topics"
         [] OTHER -> default
  ELSE default

KindName(target) ==
  CASE target = "defs" -> "definition"
    [] target = "types" -> "type"
    [] target = "topics" -> "topic"
    [] OTHER -> "symbol"

\* the children after the package name and the CST_KIND node start here
AfterKind(c) == IF Len(c) >= 2 /\ c[2].id = CST_KIND THEN 3 ELSE 2

\* for (; !child.empty(); child.nextSiblingNode()) of parse_import; the
\* CST_IDEQ nodes hold one identifier, so source = name + "@" + pkgname
RECURSIVE ImportLoop(_, _, _, _, _, _)
ImportLoop(c, k, loc, pkgname, target, d) ==
  IF k > Len(c) THEN {d}
  ELSE LET ideq == c[k].children[1]
           location == Part(loc, k)
           named(name) ==
             LET e == SymbolSource(name, location, Qualify(name, pkgname), {})
                 map == d.file.content.imports[target]
                 d1 == [d EXCEPT !.file.content.imports[target] = Insert(@, e)]
             IN IF name \in Keys(map)
                THEN ERROR(d1, location, KindName(target) \o " previously imported", name)
                ELSE d1
       IN UNION {IF g.aborted THEN {Abort(d)}
                 ELSE ImportLoop(c, k + 1, loc, pkgname, target, named(g.id))
                   : g \in getIdentifier(ideq)}

parse_import(node, loc, d) ==
  LET c == node.children
      target == KindMap(c, "mixed")
      withPackage(pkgname) ==
        IF AfterKind(c) > Len(c)
        THEN {[d EXCEPT !.file.content.imports.import_all = Append(@, pkgname)]}
        ELSE ImportLoop(c, AfterKind(c), loc, pkgname, target, d)
  IN UNION {IF g.aborted THEN {Abort(d)} ELSE withPackage(g.id)
              : g \in getIdentifier(c[1])}

\* for (; !child.empty(); child.nextSiblingNode()) of parse_export; the
\* CST_IDEQ nodes hold one identifier that is no operator
RECURSIVE ExportLoop(_, _, _, _, _, _)
ExportLoop(c, k, loc, pkgname, target, d) ==
  IF k > Len(c) THEN {d}
  ELSE LET ideq == c[k].children[1]
           location == Part(loc, k)
           named(name) ==
             LET e == SymbolSource(name, location, Qualify(name, pkgname), {})
                 local == d.file.local[target]
                 d1 == [d EXCEPT !.package.exports[target] = Insert(@, e),
                                 !.file.local[target] = Insert(@, e)]
             IN IF name \in Keys(local)
                THEN ERROR(d1, location, KindName(target) \o " previously defined", name)
                ELSE d1
       IN UNION {IF g.aborted THEN {Abort(d)}
                 ELSE ExportLoop(c, k + 1, loc, pkgname, target, named(g.id))
                   : g \in getIdentifier(ideq)}

parse_export(node, loc, d) ==
  LET c == node.children
      target == KindMap(c, "none")
      withPackage(pkgname) ==
        IF target = "none"
        THEN {ERROR(d, Part(loc, 2), "from ... export must be followed by 'def', 'type', or 'topic'", <<>>)}
        ELSE ExportLoop(c, AfterKind(c), loc, pkgname, target, d)
  IN UNION {IF g.aborted THEN {Abort(d)} ELSE withPackage(g.id)
              : g \in getIdentifier(c[1])}

\* parse_flags: the flags, and the position of the child after them
parse_flags(c, pos) ==
  LET globalf == c[pos].id = CST_FLAG_GLOBAL
      p == IF globalf THEN pos + 1 ELSE pos
      exportf == c[p].id = CST_FLAG_EXPORT
  IN [globalf |-> globalf, exportf |-> exportf,
      pos |-> IF exportf THEN p + 1 ELSE p]

\* AST(token, name)
AST(location, name) ==
  [token |-> location, region |-> location, name |-> name, tag |-> <<>>, args |-> <<>>]

\* parse_type, for the nodes a type is made of here: CST_ID, CST_APP,
\* CST_BINARY with an operator child, CST_ERROR, and the default case
RECURSIVE parse_type(_, _, _)
parse_type(root, loc, d) ==
  CASE root.id = CST_BINARY ->
         LET lhs == parse_type(root.children[1], loc, d)
             op == sBinary \o relex_id(root.children[2])
             rhs == parse_type(root.children[3], loc, lhs.d)
         IN IF op = sBinary \o sColon
            THEN IF lhs.ast.args # <<>> \/ lex_kind(lhs.ast.name) = "OPERATOR"
                 THEN [ast |-> rhs.ast,
                       d |-> ERROR(rhs.d, lhs.ast.region,
                                   "tag-name for a type must be a simple lower-case identifier",
                                   lhs.ast.name)]
                 ELSE [ast |-> [rhs.ast EXCEPT !.tag = lhs.ast.name, !.region = loc],
                       d |-> rhs.d]
            ELSE [ast |-> [AST(loc, op) EXCEPT !.args = <<lhs.ast, rhs.ast>>],
                  d |-> rhs.d]
    [] root.id = CST_ID -> [ast |-> AST(loc, relex_id(root)), d |-> d]
    [] root.id = CST_APP ->
         LET lhs == parse_type(root.children[1], loc, d)
             rhs == parse_type(root.children[2], loc, lhs.d)
             d1 == CASE lex_kind(lhs.ast.name) = "LOWER" ->
                          ERROR(rhs.d, lhs.ast.token,
                                "lower-case identifier cannot be used as a type constructor",
                                lhs.ast.name)
                     [] lex_kind(lhs.ast.name) = "OPERATOR" ->
                          ERROR(rhs.d, rhs.ast.region, "excess type argument supplied",
                                lhs.ast.name)
                     [] OTHER -> rhs.d
         IN [ast |-> [lhs.ast EXCEPT !.args = Append(@, rhs.ast), !.region = loc],
             d |-> d1]
    [] root.id = CST_ERROR -> [ast |-> AST(loc, sBadType), d |-> d]
    [] OTHER -> [ast |-> AST(loc, sBadType),
                 d |-> ERROR(d, loc, "type signatures forbid", <<>>)]

\* the record of one binding: which map, which name, where
Bound1(d, map, name, location, body) ==
  [d EXCEPT !.binds = Append(@, [map |-> map, name |-> name, location |-> location,
                                 body |-> body])]

parse_topic(node, loc, d) ==
  LET c == node.children
      flags == parse_flags(c, 1)
      location == Part(loc, flags.pos)
      named(id) ==
        IF lex_kind(id) # "LOWER"
        THEN ERROR(d, location, "topic identifier is not lower-case", id)
        ELSE LET def == parse_type(c[flags.pos + 1], Part(loc, flags.pos + 1), d)
                 d1 == Bound1(def.d, "topics", id, location, def.ast)
                 leaf == SymbolSource(id, location, <<>>, {SYM_LEAF})
                 d2 == [d1 EXCEPT !.file.topics =
                          Insert(@, [name |-> id, location |-> location, type |-> def.ast])]
                 d3 == IF flags.exportf
                       THEN [d2 EXCEPT !.package.exports.topics = Insert(@, leaf)]
                       ELSE d2
                 d4 == IF flags.globalf
                       THEN [d3 EXCEPT !.globals.topics = Insert(@, leaf)]
                       ELSE d3
             IN IF id \in Keys(d1.file.topics)
                THEN ERROR(d2, location, "topic previously defined", id)
                ELSE d4
  IN {IF g.aborted THEN Abort(d) ELSE named(g.id) : g \in getIdentifier(c[flags.pos])}

\* the pair (name, DefValue(location, body)) of DefMap::defs
DefEntry(name, location, body) == [name |-> name, location |-> location, body |-> body]

bind_global(d, def) ==
  IF ~def.globalb \/ def.name = sAny THEN d
  ELSE [d EXCEPT !.globals.defs =
          Insert(@, SymbolSource(def.name, def.location, <<>>, {SYM_LEAF}))]

bind_export(d, def) ==
  IF ~def.exportb \/ def.name = sAny THEN d
  ELSE [d EXCEPT !.package.exports.defs =
          Insert(@, SymbolSource(def.name, def.location, <<>>, {SYM_LEAF}))]

\* the Location of the duplicate-definition error, were it the first binding's
FirstLocation(d, def, name) == Find(d.file.content.defs, name).location

\* Location l = def.body->location
BodyLocation(d, def, name) == def.body.location

bind_def(d, def) ==
  LET d1 == bind_export(bind_global(d, def), def)
      defs == d.file.content.defs
      name == IF def.name = sAny
              THEN sAny \o ToDecimal(Cardinality(defs)) \o <<" ", "_">>
              ELSE def.name
      l == BodyLocation(d, def, name)
      d2 == [d1 EXCEPT !.file.content.defs =
               Insert(@, DefEntry(name, def.location, def.body))]
      d3 == Bound1(d2, "defs", name, def.location, def.body)
  IN IF name \in Keys(defs)
     THEN ERROR(d3, l, "definition previously defined", name)
     ELSE d3

bind_type(d, name, location, exportb, globalb) ==
  LET leaf == SymbolSource(name, location, <<>>, {SYM_LEAF})
      d1 == IF globalb THEN [d EXCEPT !.globals.types = Insert(@, leaf)] ELSE d
      d2 == IF exportb THEN [d1 EXCEPT !.package.exports.types = Insert(@, leaf)] ELSE d1
      d3 == [d2 EXCEPT !.package.package.types = Insert(@, leaf)]
      d4 == Bound1(d3, "types", name, location, <<>>)
  IN IF name \in Keys(d.package.package.types)
     THEN ERROR(d4, location, "type previously defined", name)
     ELSE d4

\* for (; !child.empty(); child.nextSiblingNode()) of parse_data: the
\* constructors, in order
RECURSIVE DataConstructors(_, _, _, _, _)
DataConstructors(c, k, loc, members, d) ==
  IF k > Len(c) THEN [members |-> members, d |-> d]
  ELSE LET t == parse_type(c[k], Part(loc, k), d)
           cons == t.ast
           d1 == IF cons.tag # <<>>
                 THEN ERROR(t.d, cons.region, "constructor should not be tagged", cons.name)
                 ELSE t.d
           d2 == IF cons.args = <<>> /\ lex_kind(cons.name) = "LOWER"
                 THEN ERROR(d1, cons.token, "constructor must be upper-case or operator", cons.name)
                 ELSE d1
       IN DataConstructors(c, k + 1, loc,
            Append(members, [ast |-> cons, index |-> Len(members)]), d2)

\* at most one Lambda, however many arguments
CurryOnce(location, n, body) == IF n = 0 THEN body ELSE Lambda(location, sAny, body)

\* construct = new Lambda(c.ast.token, "_", construct), once per argument
RECURSIVE CurryAny(_, _, _)
CurryAny(location, n, body) ==
  IF n = 0 THEN body ELSE CurryAny(location, n - 1, Lambda(location, sAny, body))

\* for (auto &c : sump->members) bind_def(...)
RECURSIVE BindConstructors(_, _, _, _)
BindConstructors(sum, k, flags, d) ==
  IF k > Len(sum.members) THEN d
  ELSE LET c == sum.members[k]
           construct == CurryAny(c.ast.token, Len(c.ast.args),
                                 Construct(c.ast.token, sum, c))
       IN BindConstructors(sum, k + 1, flags,
            bind_def(d, Definition(c.ast.name, c.ast.token, construct,
                                   flags.exportf, flags.globalf)))

parse_data(node, loc, d) ==
  LET c == node.children
      flags == parse_flags(c, 1)
      head == parse_type(c[flags.pos], Part(loc, flags.pos), d)
      d1 == IF head.ast.args = <<>> /\ lex_kind(head.ast.name) = "LOWER"
            THEN ERROR(head.d, Part(loc, flags.pos),
                       "data type must be upper-case or operator", head.ast.name)
            ELSE head.d
      cons == DataConstructors(c, flags.pos + 1, loc, <<>>, d1)
      sum == [name |-> head.ast.name, members |-> cons.members]
      d2 == bind_type(cons.d, sum.name, head.ast.token, flags.exportf, flags.globalf)
  IN {BindConstructors(sum, 1, flags, d2)}

\* for (; !child.empty(); child.nextSiblingNode()) of parse_tuple: the flags
\* and the tag of each CST_TUPLE_ELT
RECURSIVE TupleMembers(_, _, _, _, _)
TupleMembers(c, k, loc, members, d) ==
  IF k > Len(c) THEN [members |-> members, d |-> d]
  ELSE LET elt == c[k].children
           flags == parse_flags(elt, 1)
           arg == parse_type(elt[flags.pos], Part(loc, k), d)
       IN TupleMembers(c, k + 1, loc,
            Append(members, [tag |-> arg.ast.tag, exportf |-> flags.exportf,
                             globalf |-> flags.globalf]),
            arg.d)

\* bind_def of each Definition, in order
RECURSIVE BindAll(_, _, _)
BindAll(defs, k, d) ==
  IF k > Len(defs) THEN d ELSE BindAll(defs, k + 1, bind_def(d, defs[k]))

parse_tuple(node, loc, d) ==
  LET c == node.children
      flags == parse_flags(c, 1)
      location == Part(loc, flags.pos)
      head == parse_type(c[flags.pos], location, d)
      name == head.ast.name
      d1 == IF ~IsUpper(name)
            THEN ERROR(head.d, location, "tuple type must be upper-case", name)
            ELSE head.d
      m == TupleMembers(c, flags.pos + 1, loc, <<>>, d1)
      d2 == bind_type(m.d, name, head.ast.token, flags.exportf, flags.globalf)
  IN {BindAll(TupleDefinitions(name, head.ast.token, flags, m.members), 1, d2)}

(***************************************************************************)
(* dst_top after the loop: defaults, qualification, and the merge into Top *)
(***************************************************************************)
Kinds == {"defs", "types", "topics"}

\* Symbols::setpkg: an entry without a qualified name gets name@pkgname
setpkg(symbols, pkgname) ==
  [kind \in Kinds |->
     {IF e.qualified = <<>> THEN [e EXCEPT !.qualified = Qualify(e.name, pkgname)] ELSE e
        : e \in symbols[kind]}]

\* Symbols::join: the entries of src enter dest unless their key is there
\* already; a duplicate is reported, at the later entry, when scope is given
join(dest, src, scope, errs) ==
  [symbols |->
     [kind \in Kinds |->
        dest[kind] \cup {e \in src[kind] : e.name \notin Keys(dest[kind])}],
   errors |->
     IF scope = "" THEN errs
     ELSE errs (+) SetToBag(UNION {
            {[location |-> e.location, what |-> scope \o " duplicate " \o kind,
              name |-> e.name]
               : e \in {x \in src[kind] : x.name \in Keys(dest[kind])}}
            : kind \in Kinds})]

\* imports.empty()
ImportsEmpty(imports) ==
  /\ imports.defs = {}
  /\ imports.types = {}
  /\ imports.topics = {}
  /\ imports.mixed = {}
  /\ imports.import_all = <<>>

\* file.content->location.filename
FileName(location) == <<"f">> \o ToDecimal(location.file)

\* a round that leaves the symbol where it was
LocalizeSkip(e, pkgname, what, s) == s

\* a promotion that marks the local symbol and leaves the export unmarked
LocalizeNoLeaf(e, pkgname, what, s) ==
  LET name == Qualify(e.name, pkgname)
  IN IF e.name \notin Keys(s.local)
     THEN [s EXCEPT !.local = Insert(@, SymbolSource(e.name, e.location, name, {SYM_LEAF}))]
     ELSE LET it == Find(s.local, e.name)
          IN IF it.qualified = name
             THEN [s EXCEPT
                     !.local = (@ \ {it}) \cup
                       {[it EXCEPT !.location = e.location,
                                   !.flags = @ \cup {SYM_LEAF}]}]
             ELSE ERROR(s, e.location, what \o " previously defined", e.name)

\* one round of a localize loop: the entry e of the file enters local as
\* name@package with SYM_LEAF; s holds local, exports, errors and aborted
LocalizeOne(e, pkgname, what, s) ==
  LET name == Qualify(e.name, pkgname)
  IN IF e.name \notin Keys(s.local)
     THEN [s EXCEPT !.local = Insert(@, SymbolSource(e.name, e.location, name, {SYM_LEAF}))]
     ELSE LET it == Find(s.local, e.name)
          IN IF it.qualified = name
             THEN IF e.name \in Keys(s.exports)
                  THEN LET ex == Find(s.exports, e.name)
                       IN [s EXCEPT
                             !.local = (@ \ {it}) \cup
                               {[it EXCEPT !.location = e.location,
                                           !.flags = @ \cup {SYM_LEAF}]},
                             !.exports = (@ \ {ex}) \cup
                               {[ex EXCEPT !.flags = @ \cup {SYM_LEAF}]}]
                  \* find() returned end(): the write goes through a wild pointer
                  ELSE [s EXCEPT !.aborted = TRUE]
             ELSE ERROR(s, e.location, what \o " previously defined", e.name)

\* a localize loop, over the entries of one map of the file
RECURSIVE Localize(_, _, _, _)
Localize(todo, pkgname, what, s) ==
  IF todo = {} THEN s
  ELSE LET e == CHOOSE x \in todo : TRUE
       IN Localize(todo \ {e}, pkgname, what, LocalizeOne(e, pkgname, what, s))

\* map.defs.insert(std::make_pair(std::move(name), std::move(def.second))),
\* for every def of the moved-out map
RECURSIVE Requalify(_, _, _)
Requalify(todo, pkgname, defs) ==
  IF todo = {} THEN defs
  ELSE LET def == CHOOSE x \in todo : TRUE
       IN Requalify(todo \ {def}, pkgname,
            Insert(defs, [def EXCEPT !.name = Qualify(def.name, pkgname)]))

\* the entry of the package name given to the Package of the last file
RegisterLast(packages, pkgname, local, exports, file1, errs) ==
  [packages |-> {p \in packages : p.name # pkgname} \cup
                  {[name |-> pkgname, exports |-> exports, package |-> local,
                    files |-> <<file1>>]},
   errors |-> errs]

\* top.packages.insert(std::make_pair(package->name, nullptr)): a new entry
\* gets the Package of this file, an entry that is there is joined with it
\* and gets the File appended
Register(packages, pkgname, local, exports, file1, errs) ==
  LET fresh == pkgname \notin Keys(packages)
      old == Find(packages, pkgname)
      jp == join(old.package, local, "package-local", errs)
      je == join(old.exports, exports, "", jp.errors)
  IN IF fresh
     THEN [packages |-> packages \cup
                          {[name |-> pkgname, exports |-> exports, package |-> local,
                            files |-> <<file1>>]},
           errors |-> errs]
     ELSE [packages |-> (packages \ {old}) \cup
                          {[old EXCEPT !.package = jp.symbols,
                                       !.exports = je.symbols,
                                       !.files = Append(@, file1)]},
           errors |-> je.errors]

\* dst_top from "Set a default import" on; d is what the loop left
Finish(d, t) ==
  LET imports == d.file.content.imports
      imports1 == IF ImportsEmpty(imports)
                  THEN [imports EXCEPT !.import_all = Append(@, sWake)]
                  ELSE imports
      pkgname == IF d.package.name = <<>>
                 THEN FileName(d.file.content.location)
                 ELSE d.package.name
      exports1 == setpkg(d.package.exports, pkgname)
      globals1 == setpkg(d.globals, pkgname)
      tg == join(t.globals, globals1, "global", d.errors)
      defs == d.file.content.defs
      s0 == [local |-> d.file.local.defs, exports |-> exports1.defs,
             errors |-> tg.errors, aborted |-> FALSE]
      s1 == Localize(defs, pkgname, "definition", s0)
      s2 == Localize(d.file.topics, pkgname, "topic",
              [s1 EXCEPT !.local = d.file.local.topics, !.exports = exports1.topics])
      s3 == Localize(d.package.package.types, pkgname, "type",
              [s2 EXCEPT !.local = d.file.local.types, !.exports = exports1.types])
      local == [defs |-> s1.local, topics |-> s2.local, types |-> s3.local]
      exports2 == [defs |-> s1.exports, topics |-> s2.exports, types |-> s3.exports]
      file1 == [content |-> [location |-> d.file.content.location,
                             defs |-> Requalify(defs, pkgname, {}),
                             imports |-> imports1],
                local |-> local,
                topics |-> d.file.topics]
      fresh == pkgname \notin Keys(t.packages)
      registered == Register(t.packages, pkgname, local, exports2, file1, s3.errors)
  IN [package |-> [name |-> pkgname, exports |-> exports2,
                   package |-> IF fresh THEN local ELSE d.package.package],
      file |-> file1,
      globals |-> globals1,
      errors |-> registered.errors,
      aborted |-> s3.aborted,
      top |-> [globals |-> tg.symbols, packages |-> registered.packages]]

(***************************************************************************)
(* The top-level nodes dst_top is run on.                                  *)
(***************************************************************************)
Id(n) == Node(CST_ID, n, <<>>)

Op(n) == Node(CST_OP, n, <<>>)

ErrorNode == Node(CST_ERROR, <<>>, <<>>)

FlagGlobal == Node(CST_FLAG_GLOBAL, <<>>, <<>>)

FlagExport == Node(CST_FLAG_EXPORT, <<>>, <<>>)

Kind(kw) == Node(CST_KIND, kw, <<>>)

IdEq(x) == Node(CST_IDEQ, <<>>, <<x>>)

\* tag: type
Tagged(tag, type) == Node(CST_BINARY, <<>>, <<Id(tag), Op(sColon), Id(type)>>)

TupleElt(flags, type) == Node(CST_TUPLE_ELT, <<>>, flags \o <<type>>)

sP == <<"P">>
sQ == <<"Q">>
sA == <<"A">>
sB == <<"B">>
sX == <<"X">>
sT == <<"t">>
sF == <<"f">>
sx == <<"x">>

\* package P, package builtin, package <error>
PackageNodes ==
  {Node(CST_PACKAGE, <<>>, <<x>>) : x \in {Id(sP), Id(sBuiltin), ErrorNode}}

\* from Q import x
ImportSymbol == Node(CST_IMPORT, <<>>, <<Id(sQ), IdEq(Id(sx))>>)

\* from Q import _, from Q import def A, from Q import x
ImportNodes ==
  {Node(CST_IMPORT, <<>>, c) : c \in {<<Id(sQ)>>, <<Id(sQ), Kind(TOKEN_KW_DEF), IdEq(Id(sA))>>}}
    \cup {ImportSymbol}

\* from P export def A; from Q export def A, type A, topic t; from Q export A;
\* from Q export def <error>
ExportNodes ==
  {Node(CST_EXPORT, <<>>, c) :
     c \in {<<Id(sP), Kind(TOKEN_KW_DEF), IdEq(Id(sA))>>,
            <<Id(sQ), Kind(TOKEN_KW_DEF), IdEq(Id(sA))>>,
            <<Id(sQ), Kind(TOKEN_KW_TYPE), IdEq(Id(sA))>>,
            <<Id(sQ), Kind(TOKEN_KW_TOPIC), IdEq(Id(sT))>>,
            <<Id(sQ), IdEq(Id(sA))>>,
            <<Id(sQ), Kind(TOKEN_KW_DEF), IdEq(ErrorNode)>>}}

\* topic t: A; export topic t: A; topic A: A; topic <error>: A
TopicNodes ==
  {Node(CST_TOPIC, <<>>, c) :
     c \in {<<Id(sT), Id(sA)>>, <<FlagExport, Id(sT), Id(sA)>>,
            <<Id(sA), Id(sA)>>, <<ErrorNode, Id(sA)>>}}

\* data A = A; export data A = A; global data A = B; data A = A | A;
\* data <error> = B
DataNodes ==
  {Node(CST_DATA, <<>>, c) :
     c \in {<<Id(sA), Id(sA)>>, <<FlagExport, Id(sA), Id(sA)>>,
            <<FlagGlobal, Id(sA), Id(sB)>>, <<Id(sA), Id(sA), Id(sA)>>,
            <<ErrorNode, Id(sB)>>}}

\* tuple A = X: B; export tuple A = B | export X: B; tuple A = <error>
TupleNodes ==
  {Node(CST_TUPLE, <<>>, c) :
     c \in {<<Id(sA), TupleElt(<<>>, Tagged(sX, sB))>>,
            <<FlagExport, Id(sA), TupleElt(<<>>, Id(sB)),
              TupleElt(<<FlagExport>>, Tagged(sX, sB))>>,
            <<Id(sA), TupleElt(<<>>, ErrorNode)>>}}

\* f x
TypeApp(f, x) == Node(CST_APP, <<>>, <<f, x>>)

\* data A = A | B B | X B B; data A = A | A; global data B = B
DataDecls ==
  {Node(CST_DATA, <<>>, c) :
     c \in {<<Id(sA), Id(sA), TypeApp(Id(sB), Id(sB)),
              TypeApp(TypeApp(Id(sX), Id(sB)), Id(sB))>>,
            <<Id(sA), Id(sA), Id(sA)>>,
            <<FlagGlobal, Id(sB), Id(sB)>>}}

\* tuple A = X: B | B: B; export tuple B = global X: A;
\* global tuple B = export X: A | A; tuple A = B; tuple A = x: B
TupleDecls ==
  {Node(CST_TUPLE, <<>>, c) :
     c \in {<<Id(sA), TupleElt(<<>>, Tagged(sX, sB)), TupleElt(<<>>, Tagged(sB, sB))>>,
            <<FlagExport, Id(sB), TupleElt(<<FlagGlobal>>, Tagged(sX, sA))>>,
            <<FlagGlobal, Id(sB), TupleElt(<<FlagExport>>, Tagged(sX, sA)),
              TupleElt(<<>>, Id(sA))>>,
            <<Id(sA), TupleElt(<<>>, Id(sB))>>,
            <<Id(sA), TupleElt(<<>>, Tagged(sx, sB))>>}}

DeclNodes == DataDecls \cup TupleDecls

\* package P, package builtin, package <error>, package Q, from Q import x
NameNodes == PackageNodes \cup {Node(CST_PACKAGE, <<>>, <<Id(sQ)>>), ImportSymbol}

\* def f = x; def f x = x
DefNodes ==
  {Node(CST_DEF, <<>>, c) : c \in {<<Id(sF), Id(sx)>>, <<Id(sF), Id(sx), Id(sx)>>}}

TopNodes ==
  PackageNodes \cup ImportNodes \cup ExportNodes \cup TopicNodes \cup DataNodes
    \cup TupleNodes \cup DefNodes \cup {ErrorNode}

\* package P; from P export def A; export data A = A; tuple A = X: B;
\* topic t: A
FewNodes ==
  {Node(CST_PACKAGE, <<>>, <<Id(sP)>>),
   Node(CST_EXPORT, <<>>, <<Id(sP), Kind(TOKEN_KW_DEF), IdEq(Id(sA))>>),
   Node(CST_DATA, <<>>, <<FlagExport, Id(sA), Id(sA)>>),
   Node(CST_TUPLE, <<>>, <<Id(sA), TupleElt(<<>>, Tagged(sX, sB))>>),
   Node(CST_TOPIC, <<>>, <<Id(sT), Id(sA)>>)}

(***************************************************************************)
(* dst_top as steps: the start of a run, one step per top-level node by    *)
(* the case of the switch that takes it, and the rest of dst_top once the  *)
(* loop is over.                                                           *)
(***************************************************************************)
BeginFile(limit) ==
  /\ dpc \in {"idle", "done"}
  /\ nfiles < limit
  /\ nfiles' = nfiles + 1
  /\ package' = NewPackage
  /\ file' = NewFile([file |-> nfiles + 1, item |-> 0, part |-> 0])
  /\ globals' = EmptySymbols
  /\ binds' = <<>>
  /\ topdef' = NoNode
  /\ dpc' = "items"
  /\ UNCHANGED <<top, errors, nitems, ingestVars, tupleVars, lspVars, pollVars>>

\* topdef.location()
TopdefLocation == [file |-> nfiles, item |-> nitems + 1, part |-> 0]

\* the loop takes node, and the case called for it leaves one of outcomes
Take(node, outcomes) ==
  \E d \in outcomes :
    /\ package' = d.package
    /\ file' = d.file
    /\ globals' = d.globals
    /\ errors' = d.errors
    /\ binds' = d.binds
    /\ dpc' = IF d.aborted THEN "aborted" ELSE "items"
    /\ topdef' = node
    /\ nitems' = nitems + 1
    /\ UNCHANGED <<top, nfiles, ingestVars, tupleVars, lspVars, pollVars>>

InLoop(limit) == dpc = "items" /\ nitems < limit

PackageOn(T, limit) ==
  /\ InLoop(limit)
  /\ \E node \in T :
       node.id = CST_PACKAGE /\ Take(node, parse_package(node, TopdefLocation, Desugar))

ImportOn(T, limit) ==
  /\ InLoop(limit)
  /\ \E node \in T :
       node.id = CST_IMPORT /\ Take(node, parse_import(node, TopdefLocation, Desugar))

ExportOn(T, limit) ==
  /\ InLoop(limit)
  /\ \E node \in T :
       node.id = CST_EXPORT /\ Take(node, parse_export(node, TopdefLocation, Desugar))

TopicOn(T, limit) ==
  /\ InLoop(limit)
  /\ \E node \in T :
       node.id = CST_TOPIC /\ Take(node, parse_topic(node, TopdefLocation, Desugar))

DataOn(T, limit) ==
  /\ InLoop(limit)
  /\ \E node \in T :
       node.id = CST_DATA /\ Take(node, parse_data(node, TopdefLocation, Desugar))

TupleOn(T, limit) ==
  /\ InLoop(limit)
  /\ \E node \in T :
       node.id = CST_TUPLE /\ Take(node, parse_tuple(node, TopdefLocation, Desugar))

\* the ids the switch has a case for
Cases == {CST_PACKAGE, CST_IMPORT, CST_EXPORT, CST_TOPIC, CST_DATA, CST_TUPLE}

\* no case: the node is passed over
NoCaseOn(T, limit) ==
  /\ InLoop(limit)
  /\ \E node \in T : node.id \notin Cases /\ Take(node, {Desugar})

EndOfFile ==
  /\ dpc = "items"
  /\ LET r == Finish(Desugar, top)
     IN /\ package' = r.package
        /\ file' = r.file
        /\ globals' = r.globals
        /\ errors' = r.errors
        /\ top' = r.top
        /\ dpc' = IF r.aborted THEN "aborted" ELSE "done"
  /\ UNCHANGED <<binds, topdef, nfiles, nitems, ingestVars, tupleVars, lspVars, pollVars>>

Init == IdleIngest /\ IdleTuple /\ IdleDst /\ NewLSP /\ NewPoll

Next ==
  \/ BeginFile(MaxFiles)
  \/ PackageOn(TopNodes, MaxItems)
  \/ ImportOn(TopNodes, MaxItems)
  \/ ExportOn(TopNodes, MaxItems)
  \/ TopicOn(TopNodes, MaxItems)
  \/ DataOn(TopNodes, MaxItems)
  \/ TupleOn(TopNodes, MaxItems)
  \/ NoCaseOn(TopNodes, MaxItems)
  \/ EndOfFile

Spec == Init /\ [][Next]_vars

NextPackages ==
  \/ BeginFile(MaxTopFiles)
  \/ PackageOn(FewNodes, MaxTopItems)
  \/ ExportOn(FewNodes, MaxTopItems)
  \/ TopicOn(FewNodes, MaxTopItems)
  \/ DataOn(FewNodes, MaxTopItems)
  \/ TupleOn(FewNodes, MaxTopItems)
  \/ EndOfFile

SpecPackages == Init /\ [][NextPackages]_vars

\* package P; from P export def A, type A, topic t; from Q export def A,
\* type A, topic t; data A = A; topic t: A
ReexportNodes ==
  {Node(CST_PACKAGE, <<>>, <<Id(sP)>>),
   Node(CST_DATA, <<>>, <<Id(sA), Id(sA)>>),
   Node(CST_TOPIC, <<>>, <<Id(sT), Id(sA)>>)}
    \cup {Node(CST_EXPORT, <<>>, <<Id(p), Kind(kw), IdEq(Id(n))>>) :
            p \in {sP, sQ},
            <<kw, n>> \in {<<TOKEN_KW_DEF, sA>>, <<TOKEN_KW_TYPE, sA>>,
                           <<TOKEN_KW_TOPIC, sT>>}}

\* dst_top on the files that re-export what they define
NextExports ==
  \/ BeginFile(MaxFiles)
  \/ PackageOn(ReexportNodes, MaxDecls)
  \/ ExportOn(ReexportNodes, MaxDecls)
  \/ TopicOn(ReexportNodes, MaxDecls)
  \/ DataOn(ReexportNodes, MaxDecls)
  \/ EndOfFile

SpecExports == Init /\ [][NextExports]_vars

SpecLsp == Init /\ [][NextLsp]_vars

SpecPoll == Init /\ [][NextPoll]_vars

\* the loop of dst_top over one file of data and tuple declarations
NextDecls ==
  \/ BeginFile(MaxFiles)
  \/ DataOn(DeclNodes, MaxDecls)
  \/ TupleOn(DeclNodes, MaxDecls)

SpecDecls == Init /\ [][NextDecls]_vars

\* dst_top on files of package declarations and imports
NextNames ==
  \/ BeginFile(MaxFiles)
  \/ PackageOn(NameNodes, MaxDecls)
  \/ ImportOn(NameNodes, MaxDecls)
  \/ EndOfFile

SpecNames == Init /\ [][NextNames]_vars


(***************************************************************************)
(* Claims about dst_top.                                                   *)
(***************************************************************************)
\* the nodes under a node, itself included
RECURSIVE Under(_)
Under(node) ==
  {node} \cup UNION {Under(node.children[k]) : k \in DOMAIN node.children}

\* C5: CST_ERROR nodes do not poison their siblings: whatever CST_ERROR
\* nodes the top-level nodes hold, dst_top is never ended by the assertion of
\* getIdentifier, and a top-level CST_ERROR node itself leaves no binding and
\* no diagnostic behind.
C5_ErrorsDoNotPoison ==
  /\ dpc # "aborted"
  /\ (dpc = "items" /\ topdef.id = CST_ERROR) =>
       /\ \A j \in DOMAIN binds : binds[j].location.item # nitems
       /\ \A e \in BagToSet(errors) : e.location.item # nitems

\* binding j of this file has the name of an earlier binding in the same map
Rebinds(j) ==
  \E i \in 1..(j - 1) : binds[i].map = binds[j].map /\ binds[i].name = binds[j].name

\* the first binding of the name of binding j in its map
FirstBinding(j) ==
  binds[CHOOSE i \in 1..j :
          /\ binds[i].map = binds[j].map
          /\ binds[i].name = binds[j].name
          /\ \A k \in 1..(i - 1) :
               binds[k].map # binds[j].map \/ binds[k].name # binds[j].name]

\* the map a binding goes to, while the loop runs
MapOf(map) ==
  CASE map = "defs" -> file.content.defs
    [] map = "types" -> package.package.types
    [] map = "topics" -> file.topics

\* the diagnostic of a duplicate, at the binding that is the duplicate
DuplicateAt(b) ==
  [location |-> b.location, what |-> KindName(b.map) \o " previously defined",
   name |-> b.name]

\* C6: duplicate definitions are first-wins and reported at the second
\* occurrence: for every binding through bind_def, bind_type or parse_topic,
\* the map holds the first binding of that name, and every later binding of
\* the name has exactly one error, located at that later binding.
C6_FirstWins ==
  dpc \in {"items", "done"} =>
    \A j \in DOMAIN binds :
      /\ dpc = "items" =>
           /\ binds[j].name \in Keys(MapOf(binds[j].map))
           /\ Find(MapOf(binds[j].map), binds[j].name).location
                = FirstBinding(j).location
      /\ Rebinds(j) => CopiesIn(DuplicateAt(binds[j]), errors) = 1

C6_Witness ==
  /\ dpc = "items"
  /\ \E i, j \in DOMAIN binds :
       /\ Rebinds(i) /\ binds[i].map = "defs"
       /\ Rebinds(j) /\ binds[j].map = "types"
  /\ BagCardinality(errors) >= 2

\* e is names[k] .. names[Len(names)] as nested single-argument Lambdas
\* around something that is no Lambda
RECURSIVE Curried(_, _, _)
Curried(e, names, k) ==
  IF k > Len(names) THEN e.type # "Lambda"
  ELSE e.type = "Lambda" /\ e.name = names[k] /\ Curried(e.body, names, k + 1)

\* C7: a top-level def f x1 .. xN = body is lowered to a definition of f in
\* the file's DefMap: N nested Lambdas, x1 outermost, around the body.
C7_DefLowered ==
  (dpc = "items" /\ topdef.id = CST_DEF) =>
    LET c == topdef.children
        f == relex_id(c[1])
        args == [k \in 1..(Len(c) - 2) |-> relex_id(c[k + 1])]
    IN /\ f \in Keys(file.content.defs)
       /\ Curried(Find(file.content.defs, f).body, args, 1)

\* C8: when dst_top has qualified the definitions of a file of package P,
\* every key of the file's DefMap is n@P for a name n bound in the loop,
\* distinct names have distinct keys, and there are as many definitions as
\* before.
C8_QualifiedKeys ==
  [][(dpc = "items" /\ dpc' = "done") =>
       /\ \A key \in Keys(file'.content.defs) :
            \E n \in Keys(file.content.defs) : key = n \o <<"@">> \o package'.name
       /\ \A n \in Keys(file.content.defs) :
            \E e \in file'.content.defs :
              /\ e.name = n \o <<"@">> \o package'.name
              /\ e.body = Find(file.content.defs, n).body
       /\ Cardinality(file'.content.defs) = Cardinality(file.content.defs)]_vars

C8_Witness ==
  /\ dpc = "done"
  /\ Cardinality(file.content.defs) >= 4
  /\ package.name = sP

\* the SYM_LEAF entries of a SymbolMap
Leaves(map) == {e \in map : SYM_LEAF \in e.flags}

C10_ExportsAreLocal ==
  dpc = "done" =>
    \A kind \in Kinds : Keys(package.exports[kind]) \subseteq Keys(file.local[kind])

C10_Witness ==
  /\ dpc = "done"
  /\ package.exports.defs # {}
  /\ package.exports.types # {}
  /\ \E e \in BagToSet(errors) : e.what = "definition previously defined"

\* the file dst_top has just registered is `package P`, ..., `from Q import x`
ImportedSymbol ==
  /\ dpc = "done"
  /\ topdef = ImportSymbol
  /\ package.name = sP
  /\ \E p \in top.packages : p.name = sP /\ p.files[Len(p.files)] = file

\* the map of the file's imports holds name as name@pkgname
Imports(map, name, pkgname) ==
  \E e \in map : e.name = name /\ e.qualified = name \o <<"@">> \o pkgname

\* C12 as stated: desugaring `package P` / `from Q import x` (an import with
\* no def/type/topic keyword) makes Top.packages[P] exist and makes the file's
\* content.imports.defs map x to x@Q.
C12_SymbolImportInDefs ==
  ImportedSymbol => Imports(file.content.imports.defs, sx, sQ)

\* C12, amended: the import with no kind keyword makes Top.packages[P] exist
\* and makes the file's content.imports.mixed map x to x@Q; imports.defs gets
\* no entry for x.
C12_SymbolImportInMixed ==
  (dpc = "done" /\ topdef = ImportSymbol /\ package.name = sP) =>
    /\ \E p \in top.packages : p.name = sP /\ p.files[Len(p.files)] = file
    /\ Imports(file.content.imports.mixed, sx, sQ)
    /\ sx \notin Keys(file.content.imports.defs)

C12_Witness ==
  /\ ImportedSymbol
  /\ nitems = 2
  /\ Cardinality(file.content.imports.mixed) = 1
  /\ BagCardinality(errors) = 0

\* the bind_def calls of the top-level node the loop has just taken, in order
DefsBound ==
  SelectSeq(binds, LAMBDA b : b.map = "defs" /\ b.location.item = nitems)

\* the name of a constructor given as a type: the head of its applications
RECURSIVE ConsName(_)
ConsName(node) ==
  CASE node.id = CST_APP -> ConsName(node.children[1])
    [] node.id = CST_ID -> node.name
    [] OTHER -> sBadType

\* the number of arguments a constructor is applied to
RECURSIVE ConsArity(_)
ConsArity(node) ==
  IF node.id = CST_APP THEN 1 + ConsArity(node.children[1]) ELSE 0

\* what is under the Lambdas of e
RECURSIVE Uncurried(_)
Uncurried(e) == IF e.type = "Lambda" THEN Uncurried(e.body) ELSE e

\* binding j of this file is the first of its name in its map
FirstOfName(j) == ~Rebinds(j)

\* C13: for every data declaration with constructors C1..Ck, parse_data
\* builds one Sum whose members are C1..Ck in declaration order and binds,
\* for each Ci with Ni arguments, a definition named Ci whose body is exactly
\* Ni nested single-argument Lambdas around Construct(Sum, Ci) (a bare
\* Construct when Ni = 0); the DefMap holds that body unless the name was
\* bound before.
C13_DataConstructors ==
  (dpc = "items" /\ topdef.id = CST_DATA) =>
    LET c == topdef.children
        pos == parse_flags(c, 1).pos
        k == Len(c) - pos
        cons(i) == c[pos + i]
    IN /\ Len(DefsBound) = k
       /\ \A i \in 1..k :
            LET b == DefsBound[i]
                inner == Uncurried(b.body)
            IN /\ b.name = ConsName(cons(i))
               /\ Curried(b.body, [n \in 1..ConsArity(cons(i)) |-> sAny], 1)
               /\ inner.type = "Construct"
               /\ inner.sum = ConsName(c[pos])
               /\ inner.cons.index = i - 1
               /\ inner.cons.ast.name = ConsName(cons(i))
               /\ Len(inner.cons.ast.args) = ConsArity(cons(i))
               /\ (\A j \in DOMAIN binds :
                     (binds[j] = b /\ FirstOfName(j)) =>
                       Find(file.content.defs, b.name).body = b.body)

C13_Witness ==
  /\ dpc = "items"
  /\ topdef.id = CST_DATA
  /\ Len(DefsBound) = 3
  /\ \E i \in 1..3 : DefsBound[i].body.type = "Lambda"
                      /\ DefsBound[i].body.body.type = "Lambda"
  /\ \E i \in 1..3 : DefsBound[i].body.type = "Construct"
  /\ BagCardinality(errors) = 0

\* the CST_TUPLE_ELT children of the tuple declaration the loop has just taken
FieldsOf(node) ==
  LET c == node.children
      pos == parse_flags(c, 1).pos
  IN [i \in 1..(Len(c) - pos) |-> c[pos + i]]

\* the type of a field, after its flags
FieldType(elt) == elt.children[parse_flags(elt.children, 1).pos]

\* the tag F of a field F: Type, <<>> when the field has none
FieldTag(elt) ==
  IF FieldType(elt).id = CST_BINARY THEN FieldType(elt).children[1].name ELSE <<>>

\* the name T of the tuple declaration
TupleOf(node) == ConsName(node.children[parse_flags(node.children, 1).pos])

\* the bind_def calls of the declaration that bind name
BoundAs(name) == {i \in DOMAIN DefsBound : DefsBound[i].name = name}

\* get, set and edit of field tag of tuple T are bound, each FLAG_SYNTHETIC
AccessorsBound(T, tag) ==
  \A prefix \in {sGet, sSet, sEdit} :
    /\ BoundAs(prefix \o T \o tag) # {}
    /\ \A i \in BoundAs(prefix \o T \o tag) : FLAG_SYNTHETIC \in DefsBound[i].body.flags

\* the constructor T is bound first, and is not FLAG_SYNTHETIC
ConstructorBound(T) ==
  /\ DefsBound # <<>>
  /\ DefsBound[1].name = T
  /\ FLAG_SYNTHETIC \notin DefsBound[1].body.flags
  /\ Uncurried(DefsBound[1].body).type = "Construct"

\* C14 as stated: for every tuple declaration T, parse_tuple binds the
\* constructor T and, for each field F, the three definitions getTF, setTF
\* and editTF; each accessor carries FLAG_SYNTHETIC and T does not.
C14_AccessorsOfEveryField ==
  (dpc = "items" /\ topdef.id = CST_TUPLE) =>
    /\ ConstructorBound(TupleOf(topdef))
    /\ \A i \in DOMAIN FieldsOf(topdef) :
         FieldTag(FieldsOf(topdef)[i]) # <<>> =>
           AccessorsBound(TupleOf(topdef), FieldTag(FieldsOf(topdef)[i]))

\* C14, amended: parse_tuple binds the constructor T, without
\* FLAG_SYNTHETIC, and for each field whose tag F is an upper-case identifier
\* the three definitions getTF, editTF and setTF, each FLAG_SYNTHETIC; a
\* field with no tag or a tag that is not upper-case gets no accessor, so the
\* declaration binds 1 + 3n definitions for n upper-case tags (seven for
\* tuple Point = X: Integer | Y: Integer).
C14_AccessorsOfUpperFields ==
  (dpc = "items" /\ topdef.id = CST_TUPLE) =>
    LET fields == FieldsOf(topdef)
        upper == {i \in DOMAIN fields : IsUpper(FieldTag(fields[i]))}
    IN /\ ConstructorBound(TupleOf(topdef))
       /\ \A i \in upper : AccessorsBound(TupleOf(topdef), FieldTag(fields[i]))
       /\ Len(DefsBound) = 1 + 3 * Cardinality(upper)
       /\ \A j \in 2..Len(DefsBound) :
            /\ FLAG_SYNTHETIC \in DefsBound[j].body.flags
            /\ \E i \in upper, prefix \in {sGet, sSet, sEdit} :
                 DefsBound[j].name = prefix \o TupleOf(topdef) \o FieldTag(fields[i])
       /\ \A j \in DOMAIN binds :
            (binds[j].map = "defs" /\ binds[j].location.item = nitems /\ FirstOfName(j))
              => Find(file.content.defs, binds[j].name).body = binds[j].body

C14_Witness ==
  /\ dpc = "items"
  /\ topdef.id = CST_TUPLE
  /\ Len(DefsBound) = 7
  /\ Cardinality({DefsBound[i].name : i \in 1..7}) = 7
  /\ Cardinality(file.content.defs) = 7
  /\ BagCardinality(errors) = 0

\* the flags of a declaration or of a field
FlagsOf(children) == parse_flags(children, 1)

\* the names getTF, setTF, editTF of the fields of node that have accessors
\* and carry the export (the global) flag
AccessorsFlagged(node, global) ==
  {prefix \o TupleOf(node) \o FieldTag(FieldsOf(node)[i]) :
     prefix \in {sGet, sSet, sEdit},
     i \in {k \in DOMAIN FieldsOf(node) :
              /\ IsUpper(FieldTag(FieldsOf(node)[k]))
              /\ IF global THEN FlagsOf(FieldsOf(node)[k].children).globalf
                           ELSE FlagsOf(FieldsOf(node)[k].children).exportf}}

\* {T} when the declaration carries the flag
DeclFlagged(node, global) ==
  IF (IF global THEN FlagsOf(node.children).globalf ELSE FlagsOf(node.children).exportf)
  THEN {TupleOf(node)} ELSE {}

\* C15: accessor visibility is per field: a tuple declaration enters getTF,
\* setTF and editTF into the package exports (the globals) if and only if
\* field F carries the export (global) flag, and enters the type T and the
\* constructor T if and only if the declaration carries the flag.
C15_VisibilityPerField ==
  [][(dpc = "items" /\ dpc' = "items" /\ nitems' = nitems + 1
        /\ topdef'.id = CST_TUPLE) =>
      /\ Keys(package'.exports.defs) =
           Keys(package.exports.defs) \cup AccessorsFlagged(topdef', FALSE)
             \cup DeclFlagged(topdef', FALSE)
      /\ Keys(globals'.defs) =
           Keys(globals.defs) \cup AccessorsFlagged(topdef', TRUE)
             \cup DeclFlagged(topdef', TRUE)
      /\ Keys(package'.exports.types) =
           Keys(package.exports.types) \cup DeclFlagged(topdef', FALSE)
      /\ Keys(globals'.types) = Keys(globals.types) \cup DeclFlagged(topdef', TRUE)]_vars

\* export tuple B = global X: A has been taken first: B is exported and not
\* global, getBX is global and not exported
C15_Witness ==
  /\ dpc = "items"
  /\ nitems = 1
  /\ topdef.id = CST_TUPLE
  /\ FlagsOf(topdef.children).exportf /\ ~FlagsOf(topdef.children).globalf
  /\ Keys(package.exports.defs) = {sB}
  /\ Keys(package.exports.types) = {sB}
  /\ Keys(globals.types) = {}
  /\ Keys(globals.defs) = {p \o sB \o sX : p \in {sGet, sSet, sEdit}}

\* the fields of node that are a type with no tag
Untagged(node) ==
  {i \in DOMAIN FieldsOf(node) : FieldType(FieldsOf(node)[i]).id # CST_BINARY}

\* C16: a tuple declaration containing a field that is not tagged makes the
\* desugarer report at least one diagnostic for that field: once the
\* declaration is taken, for each untagged field there is an error located
\* in the declaration.
C16_UntaggedFieldReported ==
  (dpc = "items" /\ topdef.id = CST_TUPLE) =>
    \A i \in Untagged(topdef) :
      \E e \in BagToSet(errors) : e.location.file = nfiles /\ e.location.item = nitems

\* what a package declaration gives as its identifier
DeclaredNames(node) ==
  IF node.children[1].id = CST_ID THEN {node.children[1].name} ELSE Relexed

\* the errors located in the top-level node the loop has just taken
ErrorsOfItem(bag, f, k) ==
  BagCardinality([e \in {x \in BagToSet(bag) :
                            x.location.file = f /\ x.location.item = k}
                    |-> CopiesIn(e, bag)])

\* C17: the package a file is registered under is the identifier of its
\* first package declaration whose name is not builtin, or the filename when
\* there is none: a package declaration sets the name if and only if none is
\* set and its identifier is not builtin, every other package declaration
\* reports exactly one error and leaves the name unchanged, nothing else
\* changes the name, and the file is registered under it.
C17_PackageName ==
  [][/\ (dpc = "items" /\ dpc' = "items" /\ topdef'.id = CST_PACKAGE) =>
         \E id \in DeclaredNames(topdef') :
           IF id # sBuiltin /\ package.name = <<>>
           THEN /\ package'.name = id
                /\ errors' = errors
           ELSE /\ package'.name = package.name
                /\ BagCardinality(errors') = BagCardinality(errors) + 1
                /\ ErrorsOfItem(errors', nfiles', nitems') = 1
     /\ (dpc = "items" /\ dpc' = "items" /\ topdef'.id # CST_PACKAGE) =>
         package'.name = package.name
     /\ (dpc = "items" /\ dpc' = "done") =>
         LET registered == IF package.name = <<>>
                           THEN FileName(file.content.location)
                           ELSE package.name
         IN /\ package'.name = registered
            /\ \E p \in top'.packages :
                 p.name = registered /\ p.files[Len(p.files)] = file']_vars

\* package Q, package P has been registered: under Q, with one error for P
C17_Witness ==
  /\ dpc = "done"
  /\ nitems = 2
  /\ topdef.id = CST_PACKAGE
  /\ package.name = sQ
  /\ \E e \in BagToSet(errors) : e.what = "package name redefined" /\ e.name = sP
  /\ \E p \in top.packages : p.name = sQ

\* the number of the file a File was made from
FileNumber(f) == f.content.location.file

\* the files dst_top has registered so far
Registered == IF dpc = "done" THEN nfiles ELSE IF nfiles = 0 THEN 0 ELSE nfiles - 1

\* every entry of old symbols is an entry of new ones
Kept(old, new) == \A kind \in Kinds : Keys(old[kind]) \subseteq Keys(new[kind])

\* C18: after dst_top has been run on k files into one Top, Top.packages has
\* exactly one entry per resolved package name, the entry of a name holds
\* the Files of the files that resolved to it, in the order they were
\* desugared, and a later file never replaces the Package or the Files an
\* earlier one registered: it adds its File at the end and its symbols.
C18_OnePackagePerName ==
  [][/\ \A p, q \in top'.packages : p.name = q.name => p = q
     /\ \A p \in top'.packages :
          /\ p.files # <<>>
          /\ \A i, j \in DOMAIN p.files :
               i < j => FileNumber(p.files[i]) < FileNumber(p.files[j])
     /\ UNION {{FileNumber(p.files[i]) : i \in DOMAIN p.files} : p \in top'.packages}
          = 1..Registered'
     /\ (dpc = "items" /\ dpc' = "done") =>
          /\ Keys(top'.packages) = Keys(top.packages) \cup {package'.name}
          /\ \A p \in top.packages :
               LET q == Find(top'.packages, p.name)
               IN /\ Kept(p.package, q.package)
                  /\ Kept(p.exports, q.exports)
                  /\ IF p.name = package'.name
                     THEN q.files = Append(p.files, file')
                     ELSE q = p
          /\ package'.name \notin Keys(top.packages) =>
               Find(top'.packages, package'.name).files = <<file'>>]_vars

\* two files of package P and the entry of P holds both, in order
C18_Witness ==
  /\ dpc = "done"
  /\ nfiles = 2
  /\ \E p \in top.packages :
       /\ p.name = sP
       /\ Len(p.files) = 2
       /\ FileNumber(p.files[1]) = 1
       /\ FileNumber(p.files[2]) = 2
       /\ p.files[1].content.defs # {}
  /\ Cardinality(top.packages) = 1

\* C20: for every token sequence the lexer returns, no TOKEN_WS and no
\* TOKEN_COMMENT token is ever passed to Parse, whichever of the three
\* indent states the token arrives in.
C20_WhitespaceFiltered ==
  Count(parsed, "WS") = 0 /\ Count(parsed, "COMMENT") = 0

\* C19: lexer mode selection: for every token ingest lexes, if the next byte
\* is not } lex_wake is called whatever the parser state; if it is },
\* lex_dstr is called iff the parser would shift STR_CLOSE, lex_rstr iff it
\* would not shift STR_CLOSE but would shift REG_CLOSE, and lex_wake
\* otherwise.
C19_LexerSelection ==
  lexer # "none" =>
    /\ lexer \in {"lex_wake", "lex_dstr", "lex_rstr"}
    /\ ~peek.brace => lexer = "lex_wake"
    /\ peek.brace =>
         /\ (lexer = "lex_dstr") <=> peek.str
         /\ (lexer = "lex_rstr") <=> (~peek.str /\ peek.reg)
         /\ (lexer = "lex_wake") <=> (~peek.str /\ ~peek.reg)

\* a } where the parser would shift both closes, lexed as the third token
\* after a newline and its whitespace
C19_Witness ==
  /\ lexed = 3
  /\ token.id = "ID"
  /\ Len(ws) = 1
  /\ peek = Peek(TRUE, TRUE, TRUE)
  /\ lexer = "lex_dstr"
  /\ Count(parsed, "INDENT") = 1

\* the newline table holds strictly increasing offsets
Increasing(newlines) ==
  \A i \in 1..(Len(newlines) - 1) : newlines[i] < newlines[i + 1]

\* C21: in a run started on an empty newline table, an iteration that lexed a
\* TOKEN_NL, in whichever state, adds exactly the token's end to the end of the
\* table, an iteration on any other token leaves the table alone, and the
\* table is strictly increasing after every iteration.
C21_NewlineRegistered ==
  [][/\ token'.id = "NL" => fcontent'.newlines = Append(fcontent.newlines, fcontent'.end)
     /\ token'.id # "NL" => fcontent'.newlines = fcontent.newlines
     /\ Increasing(fcontent'.newlines)]_vars

\* a newline registered in each of the three states
C21_Witness ==
  /\ fcontent.followed
  /\ Len(fcontent.newlines) = 3
  /\ token.id = "NL"
  /\ state = STATE_NL
  /\ lexed = 4

\* std::string newdent(nl.end, ws.end - nl.end), as the next iteration builds it
NewDent == IF state = STATE_NL THEN <<>> ELSE ws

\* the iteration reached the default: case of the switch
Reconciled ==
  /\ lexed' = lexed + 1
  /\ state \in {STATE_NL, STATE_NL_WS}
  /\ token'.id \notin {"NL", "COMMENT"}
  /\ ~(state = STATE_NL /\ token'.id = "WS")

\* indent with its j innermost levels closed
Level(j) ==
  IF j = 0 THEN indent
  ELSE SubSeq(indent, 1, indent_stack[Len(indent_stack) - j + 1])

\* the number of levels to close until indent is a byte-prefix of newdent
Popped ==
  IF \E j \in 0..Len(indent_stack) : IsPrefix(Level(j), NewDent)
  THEN CHOOSE j \in 0..Len(indent_stack) :
         /\ IsPrefix(Level(j), NewDent)
         /\ \A i \in 0..(j - 1) : ~IsPrefix(Level(i), NewDent)
  ELSE Len(indent_stack) + 1

\* 1 when newdent is strictly longer than what is left of indent
Pushed == IF Len(NewDent) > Len(Level(Popped)) THEN 1 ELSE 0

\* the tokens passed to Parse by the iteration
Emitted == SubSeq(parsed', Len(parsed) + 1, Len(parsed'))

\* C22: at each reconciliation the parser receives (NL tokens aside) one
\* DEDENT per level popped until indent is a byte-prefix of the new line's
\* indent, then at most one INDENT (one iff the new indent is strictly longer
\* than what is left), then the triggering token and nothing else, and
\* indent is then the new line's indent exactly.
C22_ReconcileThenToken ==
  [][Reconciled =>
       /\ SelectSeq(Emitted, LAMBDA t : t # "NL")
            = Repeat("DEDENT", Popped) \o Repeat("INDENT", Pushed) \o <<token'.id>>
       /\ indent' = NewDent]_vars

\* the iteration lexed TOKEN_EOF
EofLexed == lexed' = lexed + 1 /\ token'.id = "EOF"

\* no DEDENT comes after an NL in the tokens s
NoDedentAfterNl(s) ==
  \A i, j \in DOMAIN s : (i < j /\ s[i] = "NL") => s[j] # "DEDENT"

\* C23: when TOKEN_EOF is lexed, in whichever state, the parser receives one
\* DEDENT for each level still open, then at most one NL, then EOF: the levels
\* opened and closed in the iteration leave none open, EOF is passed last,
\* at most one NL is passed on the way and no DEDENT follows it.
C23_EofOrder ==
  [][EofLexed =>
       /\ Emitted[Len(Emitted)] = "EOF"
       /\ Count(Emitted, "DEDENT") = Len(indent_stack) + Count(Emitted, "INDENT")
       /\ Count(Emitted, "NL") <= 1
       /\ NoDedentAfterNl(Emitted)]_vars

\* the lines that hold nothing or a comment only, each with its newline and
\* with any leading whitespace
BlankLines ==
  LET nl == [id |-> "NL", ok |-> TRUE, text |-> <<>>]
      comment == [id |-> "COMMENT", ok |-> TRUE, text |-> <<>>]
      leading == {<<>>} \cup {<<t>> : t \in {k \in Tokens : k.id = "WS" /\ k.ok}}
  IN {l \o <<nl>> : l \in leading} \cup {l \o <<comment, nl>> : l \in leading}

\* the iterations of the loop over the tokens of a line, from the machine m
RECURSIVE RunLine(_, _)
RunLine(m, line) ==
  IF line = <<>> THEN m
  ELSE LET r == Iterate(m, Head(line), FALSE, FALSE)
       IN RunLine([r EXCEPT !.out = m.out \o @], Tail(line))

\* two iterations passed the same tokens to Parse and left the same machine;
\* ws counts only in STATE_NL_WS, the one state whose case reads it before
\* writing it
Alike(a, b) ==
  /\ a.out = b.out
  /\ a.state = b.state
  /\ a.indent = b.indent
  /\ a.stack = b.stack
  /\ a.done = b.done
  /\ a.bad = b.bad
  /\ a.nl = b.nl
  /\ (a.state = STATE_NL_WS => a.ws = b.ws)

\* C24: at the start of a line (STATE_NL), a blank or comment-only line with
\* any leading whitespace passes no token to Parse and leaves indent and
\* indent_stack as they were, the machine back in STATE_NL; and what an
\* iteration passes to Parse and leaves behind does not depend on the ws such
\* a line left, so the tokens passed to Parse are those of the input without
\* the line.
C24_BlankLinesInvisible ==
  ipc = "lex" =>
    /\ state = STATE_NL =>
         \A line \in BlankLines :
           LET m == RunLine(Machine @@ [out |-> <<>>], line)
           IN /\ m.out = <<>>
              /\ m.state = STATE_NL
              /\ m.indent = indent
              /\ m.stack = indent_stack
    /\ state # STATE_NL_WS =>
         \A w \in WsTexts \cup {<<>>}, tok \in Tokens :
           \A sh1 \in ShiftAnswers(tok.id \notin {"WS", "NL", "COMMENT"}),
              sh2 \in ShiftAnswers(tok.id = "EOF") :
             Alike(Iterate([Machine EXCEPT !.ws = w], tok, sh1, sh2),
                   Iterate(Machine, tok, sh1, sh2))

\* blank or comment-only lines were lexed below an indented line and the
\* machine is at the start of the next line, the block still open
C24_Witness ==
  /\ lexed = 6
  /\ parsed = <<"INDENT", "ID">>
  /\ state = STATE_NL
  /\ indent_stack = <<0>>
  /\ ipc = "lex"

\* C26: before the EOF handling, indent_stack holds strictly increasing
\* lengths from bottom to top, each strictly smaller than the length of
\* indent, and it is empty exactly when indent is empty; the DEDENT loop never
\* evaluated indent_stack.back() on an empty stack.
C26_StackBelowIndent ==
  /\ ipc = "lex" =>
       /\ Increasing(indent_stack)
       /\ \A i \in DOMAIN indent_stack : indent_stack[i] < Len(indent)
       /\ (indent_stack = <<>> <=> indent = <<>>)
  /\ ~popEmpty

\* two nested levels are open: a line indented by one byte, then a line
\* indented by two
C26_Witness ==
  /\ ipc = "lex"
  /\ token.id = "ID"
  /\ Len(indent) = 2
  /\ indent_stack = <<0, 1>>

Defined(kind) ==
  CASE kind = "defs" -> file.content.defs
    [] kind = "topics" -> file.topics
    [] kind = "types" -> package.package.types

\* the step is the rest of dst_top after the loop over the top-level nodes
Localized == dpc = "items" /\ nitems' = nitems /\ dpc' # "items"

\* the diagnostics about name that say what
ErrorsAbout(errs, what, name) ==
  {x \in BagToSet(errs) : x.what = what /\ x.name = name}

\* C25: when a file re-exports n (from P export def, type or topic n) and
\* defines n itself, the rest of dst_top finds the exports entry it looks up
\* and, if P is the package of the file, sets SYM_LEAF on local[n] and on
\* exports[n], moves the location of local[n] to the definition and reports
\* no error about n; if P is another package it reports exactly one
\* "previously defined" error, at the definition, and leaves local[n] as the
\* re-export made it, without SYM_LEAF.
C25_ReexportOfOwnDefinition ==
  [][Localized =>
       /\ dpc' = "done"
       /\ \A kind \in Kinds : \A e \in Defined(kind) :
            e.name \in Keys(file.local[kind]) =>
              LET it == Find(file.local[kind], e.name)
                  after == Find(file'.local[kind], e.name)
                  what == KindName(kind) \o " previously defined"
                  err == [location |-> e.location, what |-> what, name |-> e.name]
              IN IF it.qualified = Qualify(e.name, package'.name)
                 THEN /\ after = [it EXCEPT !.location = e.location,
                                            !.flags = @ \cup {SYM_LEAF}]
                      /\ e.name \in Keys(package'.exports[kind])
                      /\ SYM_LEAF \in Find(package'.exports[kind], e.name).flags
                      /\ \A x \in ErrorsAbout(errors', what, e.name) :
                           CopiesIn(x, errors') = CopiesIn(x, errors)
                 ELSE /\ after = it
                      /\ SYM_LEAF \notin after.flags
                      /\ CopiesIn(err, errors') = CopiesIn(err, errors) + 1
                      /\ \A x \in ErrorsAbout(errors', what, e.name) \ {err} :
                           CopiesIn(x, errors') = CopiesIn(x, errors)]_vars

\* package P; from P export def A; data A = A: the constructor A was
\* promoted, its local symbol moved from the export to the definition
C25_Witness ==
  /\ dpc = "done"
  /\ package.name = sP
  /\ errors = EmptyBag
  /\ \E l \in file.local.defs, x \in package.exports.defs :
       /\ l.name = sA /\ x.name = sA
       /\ l.qualified = Qualify(sA, sP)
       /\ SYM_LEAF \in l.flags /\ SYM_LEAF \in x.flags
       /\ l.location # x.location

\* the server state a request can change
ServerState == <<isInitialized, isShutDown, rootUri, changedFiles, lpc>>

\* the step read a well-formed request
Requested == nreq' = nreq + 1 /\ request' # "none"

\* C28: for every well-formed request, while the server is uninitialized
\* no handler other than initialize runs (the request is answered with
\* -32002 and the server state is unchanged), and once shutdown has been
\* handled no handler other than serverExit runs (the request is answered
\* with -32600 and the server state is unchanged).
C28_GatedHandlers ==
  [][Requested =>
       /\ (~isInitialized /\ request' # "initialize") =>
            /\ called' = "none"
            /\ code' = "-32002"
            /\ UNCHANGED ServerState
       /\ (isShutDown /\ request' # "exit") =>
            /\ called' = "none"
            /\ code' = "-32600"
            /\ UNCHANGED ServerState
       /\ ~isInitialized => called' \in {"none", "initialize"}
       /\ isShutDown => called' \in {"none", "serverExit"}]_vars

\* a request refused after shutdown, in a server that holds a changed file
C28_Witness ==
  /\ isShutDown
  /\ changedFiles # {}
  /\ request = "textDocument/didClose"
  /\ called = "none"
  /\ code = "-32600"
  /\ lpc = "serving"

\* C29: every exit request ends the server process, in whatever state it
\* arrives: with status 0 when shutdown was handled before it, with status 1
\* otherwise.
C29_ExitTerminates ==
  [][(Requested /\ request' = "exit") =>
       lpc' = IF isShutDown THEN "exit0" ELSE "exit1"]_vars

\* the number of entries of p whose descriptor is fd
Multiplicity(p, fd) == Cardinality({i \in DOMAIN p : p[i] = fd})

\* C30: after Poll::remove(fd), in any registration history, no entry has
\* descriptor fd and every other descriptor has the multiplicity it had;
\* removing a descriptor that is not registered, from an empty set too,
\* leaves the set as it was and Poll usable.
C30_RemoveExactly ==
  [][pop'.op = "remove" =>
       /\ ppc' = "ok"
       /\ Multiplicity(pfds', pop'.fd) = 0
       /\ \A fd \in Fds \ {pop'.fd} : Multiplicity(pfds', fd) = Multiplicity(pfds, fd)
       /\ Multiplicity(pfds, pop'.fd) = 0 => pfds' = pfds]_vars
====
